---- MODULE Spec2Model ----
(***************************************************************************)
(* graph-accel: in-memory graph store (core/src/graph.rs), traversal       *)
(* algorithms (core/src/traversal.rs) and the generation-based freshness   *)
(* protocol of the PostgreSQL extension (ext/src/generation.rs).           *)
(*                                                                         *)
(* HashMap<K, V> is a function whose DOMAIN is the set of keys present;    *)
(* Vec<T> is a sequence; Option<T> is <<>> (None) or <<x>> (Some(x)).      *)
(* f32 confidences are integers in tenths, with NO_CONFIDENCE for NaN.     *)
(***************************************************************************)
EXTENDS Integers, Sequences, FiniteSets, TLC

\* the core graph under construction, the last traversal call and its result
VARIABLES graph, q, res

\* the extension: the generation table and whether it can be read, the
\* backend's GRAPH_STATE, its position and the locals of a load in progress,
\* its two settings, the clock, the source data (number of mutations applied
\* per graph), the writers' positions, the history of what invalidate
\* returned (per graph, and per mutation it followed), and the backend's
\* latest call with the parity of its ensure_fresh calls
VARIABLES generation, store_ok, GRAPH_STATE, pc, load, auto_reload,
          reload_debounce_sec, now, age, wpc, returned, inv_ret, last

ext == <<generation, store_ok, GRAPH_STATE, pc, load, auto_reload,
         reload_debounce_sec, now, age, wpc, returned, inv_ret, last>>

vars == <<graph, q, res, ext>>

(***************************************************************************)
(* Bounds of the exploration                                               *)
(***************************************************************************)
MaxEdges == 2

MaxDepth == 2

MaxKspEdges == 6

MaxHops == 4

MaxK == 3

\* top_n ranges over 0..MaxTopN, beyond the number of nodes
MaxTopN == 4

MaxDegreeEdges == 3

\* i32 and u32 are IntBits wide in the model (32 in the code): the largest
\* u32 is beyond the integers that can be enumerated
IntBits == 8

NodeIds == {0, 1, 2}

\* the start of a query: the graphs explored are closed under renaming of
\* the node ids, so one start stands for all
Starts == {0}

KspNodeIds == {0, 1, 2, 3}

MaxGen == 3

MaxTime == 4

MaxDebounce == 2

MaxMutations == 2

\* clock ticks per second: Instant is finer than the whole seconds of as_secs
TicksPerSec == 2

GraphNames == {"g", "h"}

Writers == {"w1", "w2"}

Labels == {"Node"}

\* confidences 0.2 and 0.8; the threshold 0.8 makes the >= boundary matter
ConfLow == 2

ConfHigh == 8

Directions == {"Outgoing", "Incoming", "Both"}

None == <<>>

Some(x) == <<x>>

(***************************************************************************)
(* core/src/graph.rs                                                       *)
(***************************************************************************)
MAX_REL_TYPES == 65535

\* Edge::NO_CONFIDENCE, the f32 NaN sentinel
NO_CONFIDENCE == -1

\* IEEE-754 a >= b: false as soon as one side is NaN
FloatGe(a, b) == a # NO_CONFIDENCE /\ b # NO_CONFIDENCE /\ a >= b

\* IEEE-754 a < b: false as soon as one side is NaN
FloatLt(a, b) == a # NO_CONFIDENCE /\ b # NO_CONFIDENCE /\ a < b

has_confidence(e) == e.confidence # NO_CONFIDENCE

Graph_new ==
    [outgoing |-> <<>>, incoming |-> <<>>, nodes |-> <<>>,
     app_id_index |-> <<>>, rel_types |-> <<>>, rel_type_map |-> <<>>]

\* HashMap::insert
MapInsert(m, k, v) == (k :> v) @@ m

\* HashMap::entry(k).or_insert(v)
MapOrInsert(m, k, v) == m @@ (k :> v)

\* entry(k).or_insert_with(Vec::with_capacity).push(e)
MapPush(m, k, e) ==
    IF k \in DOMAIN m THEN [m EXCEPT ![k] = Append(@, e)] ELSE (k :> <<e>>) @@ m

\* variant of intern_rel_type whose assert! admits one name more
intern_rel_type_one_more(g, rel_type) ==
    IF rel_type \in DOMAIN g.rel_type_map
    THEN [graph |-> g, id |-> g.rel_type_map[rel_type], panic |-> FALSE]
    ELSE IF ~(Len(g.rel_types) <= MAX_REL_TYPES)
    THEN [graph |-> g, id |-> 0, panic |-> TRUE]
    ELSE LET id == Len(g.rel_types) % 65536
         IN  [graph |-> [g EXCEPT !.rel_types = Append(@, rel_type),
                                  !.rel_type_map = MapInsert(@, rel_type, id)],
              id |-> id, panic |-> FALSE]

\* variant of intern_rel_type that does not look the name up first
intern_rel_type_no_lookup(g, rel_type) ==
    IF ~(Len(g.rel_types) < MAX_REL_TYPES)
    THEN [graph |-> g, id |-> 0, panic |-> TRUE]
    ELSE LET id == Len(g.rel_types) % 65536
         IN  [graph |-> [g EXCEPT !.rel_types = Append(@, rel_type),
                                  !.rel_type_map = MapInsert(@, rel_type, id)],
              id |-> id, panic |-> FALSE]

\* returns the graph after interning, the id, and whether the assert! fired
intern_rel_type(g, rel_type) ==
    IF rel_type \in DOMAIN g.rel_type_map
    THEN [graph |-> g, id |-> g.rel_type_map[rel_type], panic |-> FALSE]
    ELSE IF ~(Len(g.rel_types) < MAX_REL_TYPES)
    THEN [graph |-> g, id |-> 0, panic |-> TRUE]
    ELSE LET id == Len(g.rel_types) % 65536
         IN  [graph |-> [g EXCEPT !.rel_types = Append(@, rel_type),
                                  !.rel_type_map = MapInsert(@, rel_type, id)],
              id |-> id, panic |-> FALSE]

rel_type_name(g, id) ==
    IF id + 1 \in DOMAIN g.rel_types THEN Some(g.rel_types[id + 1]) ELSE None

rel_type_count(g) == Len(g.rel_types)

add_node(g, id, label, app_id) ==
    [g EXCEPT !.app_id_index = IF app_id # None THEN MapInsert(@, app_id[1], id) ELSE @,
              !.nodes = MapInsert(@, id, [label |-> label, app_id |-> app_id])]

\* variant of add_edge that leaves the incoming adjacency alone
add_edge_no_mirror(g, from, to, rel_type, confidence) ==
    [g EXCEPT !.outgoing = MapPush(@, from,
                  [target |-> to, rel_type |-> rel_type, confidence |-> confidence])]

add_edge(g, from, to, rel_type, confidence) ==
    [g EXCEPT !.outgoing = MapPush(@, from,
                  [target |-> to, rel_type |-> rel_type, confidence |-> confidence]),
              !.incoming = MapPush(@, to,
                  [target |-> from, rel_type |-> rel_type, confidence |-> confidence])]

\* one iteration of the loop of load_edges
load_edge_record(g, rec) ==
    LET g1 == [g EXCEPT !.app_id_index =
                   IF rec.from_app_id # None
                   THEN MapOrInsert(@, rec.from_app_id[1], rec.from_id) ELSE @]
        g2 == [g1 EXCEPT !.app_id_index =
                   IF rec.to_app_id # None
                   THEN MapOrInsert(@, rec.to_app_id[1], rec.to_id) ELSE @]
        g3 == [g2 EXCEPT !.nodes = MapOrInsert(@, rec.from_id,
                   [label |-> rec.from_label, app_id |-> rec.from_app_id])]
        g4 == [g3 EXCEPT !.nodes = MapOrInsert(@, rec.to_id,
                   [label |-> rec.to_label, app_id |-> rec.to_app_id])]
        rt == intern_rel_type(g4, rec.rel_type)
    IN  IF rt.panic THEN g4
        ELSE add_edge(rt.graph, rec.from_id, rec.to_id, rt.id, rec.confidence)

RECURSIVE load_edges(_, _)
load_edges(g, edges) ==
    IF edges = <<>> THEN g
    ELSE load_edges(load_edge_record(g, Head(edges)), Tail(edges))

node(g, id) == IF id \in DOMAIN g.nodes THEN Some(g.nodes[id]) ELSE None

neighbors_out(g, id) == IF id \in DOMAIN g.outgoing THEN g.outgoing[id] ELSE <<>>

neighbors_in(g, id) == IF id \in DOMAIN g.incoming THEN g.incoming[id] ELSE <<>>

RECURSIVE SumLen(_, _)
SumLen(m, keys) ==
    IF keys = {} THEN 0
    ELSE LET k == CHOOSE x \in keys : TRUE
         IN  Len(m[k]) + SumLen(m, keys \ {k})

edge_count(g) == SumLen(g.outgoing, DOMAIN g.outgoing)

node_count(g) == Cardinality(DOMAIN g.nodes)

(***************************************************************************)
(* core/src/traversal.rs                                                   *)
(***************************************************************************)
Tag(edges, dir) == [i \in 1..Len(edges) |-> [edge |-> edges[i], dir |-> dir]]

PassesConfidence(e, min_confidence) ==
    \/ min_confidence = None
    \/ ~has_confidence(e)
    \/ FloatGe(e.confidence, min_confidence[1])

\* variant of iter_neighbors in which Both yields the outgoing edges only
iter_neighbors_both_as_outgoing(g, n, dir, min_confidence) ==
    LET use_out == dir \in {"Outgoing", "Both"}
        use_inc == dir \in {"Incoming"}
        out_iter == IF use_out THEN Tag(neighbors_out(g, n), "Outgoing") ELSE <<>>
        in_iter == IF use_inc THEN Tag(neighbors_in(g, n), "Incoming") ELSE <<>>
    IN  SelectSeq(out_iter \o in_iter,
                  LAMBDA p : PassesConfidence(p.edge, min_confidence))

\* variant of iter_neighbors that yields only the last edge that passes
iter_neighbors_last_only(g, n, dir, min_confidence) ==
    LET use_out == dir \in {"Outgoing", "Both"}
        use_inc == dir \in {"Incoming", "Both"}
        out_iter == IF use_out THEN Tag(neighbors_out(g, n), "Outgoing") ELSE <<>>
        in_iter == IF use_inc THEN Tag(neighbors_in(g, n), "Incoming") ELSE <<>>
        all == SelectSeq(out_iter \o in_iter,
                         LAMBDA p : PassesConfidence(p.edge, min_confidence))
    IN  IF all = <<>> THEN <<>> ELSE << all[Len(all)] >>

\* variant of iter_neighbors that chains the incoming edges before the
\* outgoing ones
iter_neighbors_incoming_first(g, n, dir, min_confidence) ==
    LET use_out == dir \in {"Outgoing", "Both"}
        use_inc == dir \in {"Incoming", "Both"}
        out_iter == IF use_out THEN Tag(neighbors_out(g, n), "Outgoing") ELSE <<>>
        in_iter == IF use_inc THEN Tag(neighbors_in(g, n), "Incoming") ELSE <<>>
    IN  SelectSeq(in_iter \o out_iter,
                  LAMBDA p : PassesConfidence(p.edge, min_confidence))

\* the (edge, traversed direction) pairs in iteration order
iter_neighbors(g, n, dir, min_confidence) ==
    LET use_out == dir \in {"Outgoing", "Both"}
        use_inc == dir \in {"Incoming", "Both"}
        out_iter == IF use_out THEN Tag(neighbors_out(g, n), "Outgoing") ELSE <<>>
        in_iter == IF use_inc THEN Tag(neighbors_in(g, n), "Incoming") ELSE <<>>
    IN  SelectSeq(out_iter \o in_iter,
                  LAMBDA p : PassesConfidence(p.edge, min_confidence))

\* variant of BfsExpand without the visited.contains_key test
RECURSIVE BfsExpandUnchecked(_, _, _, _)
BfsExpandUnchecked(nbrs, st, current, depth) ==
    IF nbrs = <<>> THEN st
    ELSE LET edge == Head(nbrs).edge
             dir == Head(nbrs).dir
         IN  BfsExpandUnchecked(Tail(nbrs),
                 [visited |-> MapInsert(st.visited, edge.target,
                                [distance |-> depth + 1, parent |-> current,
                                 rel_type |-> edge.rel_type, dir |-> dir]),
                  queue |-> Append(st.queue, <<edge.target, depth + 1>>)],
                 current, depth)

\* the for loop over the neighbours of `current` in bfs_neighborhood
RECURSIVE BfsExpand(_, _, _, _)
BfsExpand(nbrs, st, current, depth) ==
    IF nbrs = <<>> THEN st
    ELSE LET edge == Head(nbrs).edge
             dir == Head(nbrs).dir
         IN  IF edge.target \notin DOMAIN st.visited
             THEN BfsExpand(Tail(nbrs),
                      [visited |-> MapInsert(st.visited, edge.target,
                                     [distance |-> depth + 1, parent |-> current,
                                      rel_type |-> edge.rel_type, dir |-> dir]),
                       queue |-> Append(st.queue, <<edge.target, depth + 1>>)],
                      current, depth)
             ELSE BfsExpand(Tail(nbrs), st, current, depth)

\* one iteration of the while loop of bfs_neighborhood, the queue not empty
BfsIteration(g, st, max_depth, direction, min_confidence) ==
    LET current == Head(st.queue)[1]
        depth == Head(st.queue)[2]
        popped == [st EXCEPT !.queue = Tail(@)]
    IN  IF depth >= max_depth THEN popped
        ELSE BfsExpand(iter_neighbors(g, current, direction, min_confidence),
                       popped, current, depth)

\* the while loop of bfs_neighborhood; yields the final visited map
RECURSIVE BfsLoop(_, _, _, _, _)
BfsLoop(g, st, max_depth, direction, min_confidence) ==
    IF st.queue = <<>> THEN st.visited
    ELSE BfsLoop(g, BfsIteration(g, st, max_depth, direction, min_confidence),
                 max_depth, direction, min_confidence)

\* variant of reconstruct_path without the two reverse() calls
RECURSIVE reconstruct_path_unreversed(_, _, _, _)
reconstruct_path_unreversed(g, visited, start, n) ==
    IF n = start THEN [types |-> <<>>, directions |-> <<>>]
    ELSE LET v == visited[n]
             up == reconstruct_path_unreversed(g, visited, start, v.parent)
             name == rel_type_name(g, v.rel_type)
         IN  [types |-> IF name # None THEN <<name[1]>> \o up.types ELSE up.types,
              directions |-> <<v.dir>> \o up.directions]

\* walk of the parent pointers; the vectors are built start-first, which is
\* the result of pushing node-first and reversing
RECURSIVE reconstruct_path(_, _, _, _)
reconstruct_path(g, visited, start, n) ==
    IF n = start THEN [types |-> <<>>, directions |-> <<>>]
    ELSE LET v == visited[n]
             up == reconstruct_path(g, visited, start, v.parent)
             name == rel_type_name(g, v.rel_type)
         IN  [types |-> IF name # None THEN Append(up.types, name[1]) ELSE up.types,
              directions |-> Append(up.directions, v.dir)]

\* visited and queue before the while loop
BfsInitial(start) ==
    [visited |-> (start :> [distance |-> 0, parent |-> start,
                            rel_type |-> 0, dir |-> "Outgoing"]),
     queue |-> << <<start, 0>> >>]

\* variant of BfsVisited that expands one level too many
BfsVisitedOneDeeper(g, start, max_depth, direction, min_confidence) ==
    BfsLoop(g, [visited |-> (start :> [distance |-> 0, parent |-> start,
                                       rel_type |-> 0, dir |-> "Outgoing"]),
                queue |-> << <<start, 0>> >>],
            max_depth + 1, direction, min_confidence)

BfsVisited(g, start, max_depth, direction, min_confidence) ==
    BfsLoop(g, BfsInitial(start), max_depth, direction, min_confidence)

\* the TraversalResult built from the final visited map; neighbors is
\* collected from a HashMap iteration, so its order is unspecified: it is
\* modelled as a set
BfsResult(g, visited, start) ==
    [neighbors |->
        { LET info == node(g, id)
              p == reconstruct_path(g, visited, start, id)
          IN  [node_id |-> id,
               label |-> IF info # None THEN info[1].label ELSE "",
               app_id |-> IF info # None THEN info[1].app_id ELSE None,
               distance |-> visited[id].distance,
               path_types |-> p.types,
               path_directions |-> p.directions]
          : id \in DOMAIN visited \ {start} },
     nodes_visited |-> Cardinality(DOMAIN visited)]

\* variant without the early return for a start that is not registered
bfs_neighborhood_unchecked(g, start, max_depth, direction, min_confidence) ==
    BfsResult(g, BfsVisited(g, start, max_depth, direction, min_confidence), start)

bfs_neighborhood(g, start, max_depth, direction, min_confidence) ==
    IF node(g, start) = None
    THEN [neighbors |-> {}, nodes_visited |-> 0]
    ELSE BfsResult(g, BfsVisited(g, start, max_depth, direction, min_confidence), start)

PathStep(g, id, rel_type, direction) ==
    LET info == node(g, id)
    IN  [node_id |-> id,
         label |-> IF info # None THEN info[1].label ELSE "",
         app_id |-> IF info # None THEN info[1].app_id ELSE None,
         rel_type |-> rel_type,
         direction |-> direction]

\* variant of reconstruct_sp_path that labels the start step like the others
RECURSIVE reconstruct_sp_path_labelled_start(_, _, _, _)
reconstruct_sp_path_labelled_start(g, visited, start, current) ==
    LET v == visited[current]
    IN  IF current = start
        THEN << PathStep(g, current, rel_type_name(g, v.rel_type), Some(v.dir)) >>
        ELSE Append(reconstruct_sp_path_labelled_start(g, visited, start, v.parent),
                    PathStep(g, current, rel_type_name(g, v.rel_type), Some(v.dir)))

\* the loop of reconstruct_sp_path, built start-first (push target-first, reverse)
RECURSIVE reconstruct_sp_path(_, _, _, _)
reconstruct_sp_path(g, visited, start, current) ==
    LET v == visited[current]
    IN  IF current = start
        THEN << PathStep(g, current, None, None) >>
        ELSE Append(reconstruct_sp_path(g, visited, start, v.parent),
                    PathStep(g, current, rel_type_name(g, v.rel_type), Some(v.dir)))

\* the for loop of shortest_path over the neighbours of `current`;
\* found is set when the target is inserted (the early return)
RECURSIVE SpExpand(_, _, _, _, _)
SpExpand(nbrs, st, current, depth, target) ==
    IF nbrs = <<>> THEN st
    ELSE LET edge == Head(nbrs).edge
             dir == Head(nbrs).dir
             ins == MapInsert(st.visited, edge.target,
                        [parent |-> current, rel_type |-> edge.rel_type, dir |-> dir])
         IN  IF edge.target \notin DOMAIN st.visited
             THEN IF edge.target = target
                  THEN [visited |-> ins, queue |-> st.queue, found |-> TRUE]
                  ELSE SpExpand(Tail(nbrs),
                           [visited |-> ins,
                            queue |-> Append(st.queue, <<edge.target, depth + 1>>),
                            found |-> FALSE],
                           current, depth, target)
             ELSE SpExpand(Tail(nbrs), st, current, depth, target)

\* the while loop of shortest_path
RECURSIVE SpLoop(_, _, _, _, _, _)
SpLoop(g, st, target, max_hops, direction, min_confidence) ==
    IF st.found \/ st.queue = <<>> THEN st
    ELSE LET current == Head(st.queue)[1]
             depth == Head(st.queue)[2]
             popped == [st EXCEPT !.queue = Tail(@)]
         IN  IF depth >= max_hops
             THEN SpLoop(g, popped, target, max_hops, direction, min_confidence)
             ELSE SpLoop(g,
                      SpExpand(iter_neighbors(g, current, direction, min_confidence),
                               popped, current, depth, target),
                      target, max_hops, direction, min_confidence)

SpStart(start) ==
    [visited |-> (start :> [parent |-> start, rel_type |-> 0, dir |-> "Outgoing"]),
     queue |-> << <<start, 0>> >>, found |-> FALSE]

\* variant of shortest_path that allows one hop too many
shortest_path_no_hop_limit(g, start, target, max_hops, direction, min_confidence) ==
    IF node(g, start) = None \/ node(g, target) = None THEN None
    ELSE IF start = target THEN Some(<< PathStep(g, start, None, None) >>)
    ELSE IF max_hops = 0 THEN None
    ELSE LET st == SpLoop(g, SpStart(start), target, max_hops + 1,
                          direction, min_confidence)
         IN  IF st.found
             THEN Some(reconstruct_sp_path(g, st.visited, start, target))
             ELSE None

\* Option<Vec<PathStep>>
shortest_path(g, start, target, max_hops, direction, min_confidence) ==
    IF node(g, start) = None \/ node(g, target) = None THEN None
    ELSE IF start = target THEN Some(<< PathStep(g, start, None, None) >>)
    ELSE IF max_hops = 0 THEN None
    ELSE LET st == SpLoop(g, SpStart(start), target, max_hops, direction, min_confidence)
         IN  IF st.found
             THEN Some(reconstruct_sp_path(g, st.visited, start, target))
             ELSE None

\* the for loop of shortest_path_excluding over the neighbours of `current`
RECURSIVE SpxExpand(_, _, _, _, _, _, _)
SpxExpand(nbrs, st, current, depth, target, excluded_nodes, excluded_edges) ==
    IF nbrs = <<>> THEN st
    ELSE LET edge == Head(nbrs).edge
             dir == Head(nbrs).dir
             ins == MapInsert(st.visited, edge.target,
                        [parent |-> current, rel_type |-> edge.rel_type, dir |-> dir])
         IN  IF edge.target \in excluded_nodes
             THEN SpxExpand(Tail(nbrs), st, current, depth, target,
                            excluded_nodes, excluded_edges)
             ELSE IF <<current, edge.target>> \in excluded_edges
             THEN SpxExpand(Tail(nbrs), st, current, depth, target,
                            excluded_nodes, excluded_edges)
             ELSE IF edge.target \notin DOMAIN st.visited
             THEN IF edge.target = target
                  THEN [visited |-> ins, queue |-> st.queue, found |-> TRUE]
                  ELSE SpxExpand(Tail(nbrs),
                           [visited |-> ins,
                            queue |-> Append(st.queue, <<edge.target, depth + 1>>),
                            found |-> FALSE],
                           current, depth, target, excluded_nodes, excluded_edges)
             ELSE SpxExpand(Tail(nbrs), st, current, depth, target,
                            excluded_nodes, excluded_edges)

\* the while loop of shortest_path_excluding
RECURSIVE SpxLoop(_, _, _, _, _, _, _, _)
SpxLoop(g, st, target, max_hops, direction, min_confidence, excluded_nodes, excluded_edges) ==
    IF st.found \/ st.queue = <<>> THEN st
    ELSE LET current == Head(st.queue)[1]
             depth == Head(st.queue)[2]
             popped == [st EXCEPT !.queue = Tail(@)]
         IN  IF depth >= max_hops
             THEN SpxLoop(g, popped, target, max_hops, direction, min_confidence,
                          excluded_nodes, excluded_edges)
             ELSE SpxLoop(g,
                      SpxExpand(iter_neighbors(g, current, direction, min_confidence),
                                popped, current, depth, target,
                                excluded_nodes, excluded_edges),
                      target, max_hops, direction, min_confidence,
                      excluded_nodes, excluded_edges)

shortest_path_excluding(g, start, target, max_hops, direction, min_confidence, excluded_nodes, excluded_edges) ==
    IF node(g, start) = None \/ node(g, target) = None THEN None
    ELSE IF start \in excluded_nodes \/ target \in excluded_nodes THEN None
    ELSE IF start = target THEN Some(<< PathStep(g, start, None, None) >>)
    ELSE IF max_hops = 0 THEN None
    ELSE LET st == SpxLoop(g, SpStart(start), target, max_hops, direction,
                           min_confidence, excluded_nodes, excluded_edges)
         IN  IF st.found
             THEN Some(reconstruct_sp_path(g, st.visited, start, target))
             ELSE None

Ids(path) == [i \in 1..Len(path) |-> path[i].node_id]

SaturatingSub(a, b) == IF a >= b THEN a - b ELSE 0

\* Vec::sort_by_key(|p| p.len()): a stable sort by length
RECURSIVE SortFrom(_, _)
SortFrom(paths, len) ==
    IF \A i \in 1..Len(paths) : Len(paths[i]) < len THEN <<>>
    ELSE SelectSeq(paths, LAMBDA p : Len(p) = len) \o SortFrom(paths, len + 1)

\* variant of SortByLen that puts the longest path first
RECURSIVE SortDownFrom(_, _)
SortDownFrom(paths, len) ==
    IF len = 0 THEN <<>>
    ELSE SelectSeq(paths, LAMBDA p : Len(p) = len) \o SortDownFrom(paths, len - 1)

SortByLenDescending(paths) == SortDownFrom(paths, Cardinality(KspNodeIds) + 1)

SortByLen(paths) == SortFrom(paths, 0)

\* the edges leaving the spur node on accepted paths that share the root
ExcludedEdges(result, root_ids, spur_idx) ==
    { <<result[i][spur_idx + 1].node_id, result[i][spur_idx + 2].node_id>> :
        i \in { j \in 1..Len(result) :
                  /\ Len(result[j]) > spur_idx
                  /\ Ids(SubSeq(result[j], 1, spur_idx + 1)) = root_ids } }

\* variant of ExcludedNodes that excludes nothing
ExcludedNodesNone(root_ids, spur_idx) == {}

\* the excluded root-path nodes: every root node but the spur node
ExcludedNodes(root_ids, spur_idx) == { root_ids[i] : i \in 1..spur_idx }

\* root + spur, skipping the spur path's first step (the spur node again)
Candidate(root_path, spur_path) == root_path \o Tail(spur_path)

\* the de-duplication by node sequence against accepted and pending paths
IsDup(result, candidates, candidate_ids) ==
    \/ \E i \in 1..Len(result) :
           Len(result[i]) = Len(candidate_ids) /\ Ids(result[i]) = candidate_ids
    \/ \E i \in 1..Len(candidates) :
           Len(candidates[i]) = Len(candidate_ids) /\ Ids(candidates[i]) = candidate_ids

\* the inner for loop of k_shortest_paths over the spur nodes of prev_path;
\* yields the candidate pool
RECURSIVE KspSpurs(_, _, _, _, _, _, _, _, _)
KspSpurs(g, result, candidates, prev_path, spur_idx, target, max_hops, direction, min_confidence) ==
    IF spur_idx >= SaturatingSub(Len(prev_path), 1) THEN candidates
    ELSE LET spur_node == prev_path[spur_idx + 1].node_id
             root_path == SubSeq(prev_path, 1, spur_idx + 1)
             root_ids == Ids(root_path)
             excluded_edges == ExcludedEdges(result, root_ids, spur_idx)
             excluded_nodes == ExcludedNodes(root_ids, spur_idx)
             remaining_hops == SaturatingSub(max_hops, spur_idx)
             spur_path == shortest_path_excluding(g, spur_node, target, remaining_hops,
                              direction, min_confidence, excluded_nodes, excluded_edges)
             candidate == Candidate(root_path, spur_path[1])
             candidate_ids == Ids(candidate)
             is_dup == IsDup(result, candidates, candidate_ids)
         IN  IF remaining_hops = 0 \/ spur_path = None
             THEN KspSpurs(g, result, candidates, prev_path, spur_idx + 1,
                           target, max_hops, direction, min_confidence)
             ELSE KspSpurs(g, result,
                           IF is_dup THEN candidates ELSE Append(candidates, candidate),
                           prev_path, spur_idx + 1,
                           target, max_hops, direction, min_confidence)

\* variant of RemoveFirst that leaves the accepted candidate in the pool
RemoveFirstKept(candidates) == candidates

\* candidates.remove(0): the pool without the candidate just accepted
RemoveFirst(candidates) == Tail(candidates)

\* the outer for loop of k_shortest_paths, ki in 1..k
RECURSIVE KspLoop(_, _, _, _, _, _, _, _, _)
KspLoop(g, result, candidates, ki, k, target, max_hops, direction, min_confidence) ==
    IF ki >= k THEN result
    ELSE LET pool == KspSpurs(g, result, candidates, result[ki], 0,
                              target, max_hops, direction, min_confidence)
             sorted == SortByLen(pool)
         IN  IF pool = <<>> THEN result
             ELSE KspLoop(g, Append(result, Head(sorted)), RemoveFirst(sorted), ki + 1, k,
                          target, max_hops, direction, min_confidence)

\* Vec<Vec<PathStep>>
k_shortest_paths(g, start, target, max_hops, k, direction, min_confidence) ==
    IF k = 0 THEN <<>>
    ELSE LET first == shortest_path(g, start, target, max_hops, direction, min_confidence)
         IN  IF first = None THEN <<>>
             ELSE KspLoop(g, << first[1] >>, <<>>, 1, k,
                          target, max_hops, direction, min_confidence)

\* phase 1 of extract_subgraph: the start and the nodes the BFS discovered
SubgraphNodeSet(g, start, max_depth, direction, min_confidence) ==
    {start} \cup { nr.node_id :
        nr \in bfs_neighborhood(g, start, max_depth, direction, min_confidence).neighbors }

\* `continue` in the inner loop of phase 2
SkipsEdge(edge, min_confidence) ==
    min_confidence # None /\ has_confidence(edge)
        /\ FloatLt(edge.confidence, min_confidence[1])

SubgraphEdge(g, node_id, edge) ==
    LET from_info == node(g, node_id)
        to_info == node(g, edge.target)
        name == rel_type_name(g, edge.rel_type)
    IN  [from_id |-> node_id,
         from_label |-> IF from_info = None THEN "" ELSE from_info[1].label,
         from_app_id |-> IF from_info = None THEN None ELSE from_info[1].app_id,
         to_id |-> edge.target,
         to_label |-> IF to_info = None THEN "" ELSE to_info[1].label,
         to_app_id |-> IF to_info = None THEN None ELSE to_info[1].app_id,
         rel_type |-> IF name = None THEN "UNKNOWN" ELSE name[1]]

\* variant of the inner loop that does not test node_set.contains(&edge.target)
SubgraphEdgesOfAnyTarget(g, node_id, node_set, min_confidence) ==
    LET kept == SelectSeq(neighbors_out(g, node_id),
                    LAMBDA edge : ~SkipsEdge(edge, min_confidence))
    IN  [i \in 1..Len(kept) |-> SubgraphEdge(g, node_id, kept[i])]

\* the inner loop of phase 2: the edges pushed for one node of node_set
SubgraphEdgesOf(g, node_id, node_set, min_confidence) ==
    LET kept == SelectSeq(neighbors_out(g, node_id),
                    LAMBDA edge : ~SkipsEdge(edge, min_confidence)
                                  /\ edge.target \in node_set)
    IN  [i \in 1..Len(kept) |-> SubgraphEdge(g, node_id, kept[i])]

\* the outer loop of phase 2 over node_set, visited in the sequence `order`
RECURSIVE SubgraphEdges(_, _, _, _)
SubgraphEdges(g, order, node_set, min_confidence) ==
    IF order = <<>> THEN <<>>
    ELSE SubgraphEdgesOf(g, Head(order), node_set, min_confidence)
             \o SubgraphEdges(g, Tail(order), node_set, min_confidence)

\* the orders in which a HashSet may be iterated
IterationOrders(set) ==
    { o \in [1..Cardinality(set) -> set] :
        \A i, j \in 1..Cardinality(set) : i # j => o[i] # o[j] }

\* `order` is the iteration order of node_set, which the HashSet leaves open
extract_subgraph(g, start, max_depth, direction, min_confidence, order) ==
    IF node(g, start) = None THEN [node_count |-> 0, edges |-> <<>>]
    ELSE LET node_set == SubgraphNodeSet(g, start, max_depth, direction, min_confidence)
         IN  [node_count |-> Cardinality(node_set),
              edges |-> SubgraphEdges(g, order, node_set, min_confidence)]

\* Graph::nodes_iter: the registered nodes with their metadata
nodes_iter(g) == { [id |-> id, info |-> g.nodes[id]] : id \in DOMAIN g.nodes }

DegreeResult(g, id, info) ==
    LET out_degree == Len(neighbors_out(g, id))
        in_degree == Len(neighbors_in(g, id))
    IN  [node_id |-> id, label |-> info.label, app_id |-> info.app_id,
         out_degree |-> out_degree, in_degree |-> in_degree,
         total_degree |-> out_degree + in_degree]

\* variant of the comparator that orders by total degree ascending
DegreeLessAscending(a, b) ==
    \/ a.total_degree < b.total_degree
    \/ a.total_degree = b.total_degree /\ a.node_id < b.node_id

\* the comparator of sort_by yields Ordering::Less for (a, b)
DegreeLess(a, b) ==
    \/ b.total_degree < a.total_degree
    \/ b.total_degree = a.total_degree /\ a.node_id < b.node_id

\* results.sort_by(..): the comparator is a total order on results (node ids
\* are distinct), so the sorted Vec does not depend on the order of nodes_iter
RECURSIVE SortByDegree(_)
SortByDegree(results) ==
    IF results = {} THEN <<>>
    ELSE LET first == CHOOSE a \in results :
                          \A b \in results \ {a} : DegreeLess(a, b)
         IN  <<first>> \o SortByDegree(results \ {first})

degree_centrality(g, top_n) ==
    LET results == SortByDegree({ DegreeResult(g, n.id, n.info) : n \in nodes_iter(g) })
    IN  IF top_n > 0 /\ top_n < Len(results) THEN SubSeq(results, 1, top_n)
        ELSE results

(***************************************************************************)
(* ext/src: generation.rs, state.rs, guc.rs, load.rs                       *)
(***************************************************************************)
\* guc.rs: the boot values of graph_accel.auto_reload and reload_debounce_sec
AUTO_RELOAD == TRUE

RELOAD_DEBOUNCE_SEC == 5

\* SELECT generation FROM graph_accel.generation WHERE graph_name = ...:
\* None if the table cannot be read, Some(0) if there is no row
fetch_generation_spi(table, readable, graph_name) ==
    IF ~readable THEN None
    ELSE IF graph_name \in DOMAIN table THEN Some(table[graph_name])
    ELSE Some(0)

fetch_generation(table, readable, graph_name) ==
    fetch_generation_spi(table, readable, graph_name)

\* variant of graph_accel_invalidate whose ON CONFLICT branch leaves the
\* generation as it is
graph_accel_invalidate_no_bump(table, graph_name) ==
    LET t == IF graph_name \in DOMAIN table THEN table
             ELSE (graph_name :> 1) @@ table
    IN  [table |-> t, new_gen |-> t[graph_name]]

\* the upsert of graph_accel_invalidate, one statement: the table after it and
\* the generation it returns
graph_accel_invalidate(table, graph_name) ==
    LET t == IF graph_name \in DOMAIN table
             THEN [table EXCEPT ![graph_name] = @ + 1]
             ELSE (graph_name :> 1) @@ table
    IN  [table |-> t, new_gen |-> t[graph_name]]

\* loaded_at.elapsed().as_secs(): whole seconds, rounded down
as_secs(ticks) == ticks \div TicksPerSec

\* variant of ensure_fresh without the debounce
ensure_fresh_no_debounce(gs, table, readable, auto, debounce_secs, clock) ==
    IF gs = None THEN None
    ELSE LET graph_name  == gs[1].source_graph
             loaded_gen  == gs[1].loaded_generation
             current_gen == fetch_generation(table, readable, graph_name)
         IN  IF current_gen = None THEN None
             ELSE IF loaded_gen >= current_gen[1] THEN None
             ELSE IF ~auto THEN None
             ELSE Some(graph_name)

\* variant of ensure_fresh in which a debounce setting above 0 holds every
\* reload back, whatever time has passed
ensure_fresh_debounce_blocks(gs, table, readable, auto, debounce_secs, clock) ==
    IF gs = None THEN None
    ELSE LET graph_name  == gs[1].source_graph
             loaded_gen  == gs[1].loaded_generation
             current_gen == fetch_generation(table, readable, graph_name)
         IN  IF current_gen = None THEN None
             ELSE IF loaded_gen >= current_gen[1] THEN None
             ELSE IF ~auto THEN None
             ELSE IF debounce_secs > 0 THEN None
             ELSE Some(graph_name)

\* ensure_fresh up to its last line: None where it returns, Some(graph_name)
\* where it goes on to do_load(&graph_name)
ensure_fresh(gs, table, readable, auto, debounce_secs, clock) ==
    IF gs = None THEN None
    ELSE LET graph_name  == gs[1].source_graph
             loaded_gen  == gs[1].loaded_generation
             loaded_at   == gs[1].loaded_at
             current_gen == fetch_generation(table, readable, graph_name)
             elapsed     == as_secs(clock - loaded_at)
         IN  IF current_gen = None THEN None
             ELSE IF loaded_gen >= current_gen[1] THEN None
             ELSE IF ~auto THEN None
             ELSE IF debounce_secs > 0 /\ elapsed < debounce_secs THEN None
             ELSE Some(graph_name)

\* do_load reading the source graph: the data as of this read
do_load_read(source, graph_name) == source[graph_name]

\* do_load ending: the generation is read once the data is in, and the
\* GraphState replaces the backend's
do_load_finish(locals, table, readable, clock) ==
    LET gen == fetch_generation_spi(table, readable, locals.graph_name)
    IN  [graph |-> locals.graph,
         source_graph |-> locals.graph_name,
         loaded_at |-> clock,
         loaded_generation |-> IF gen = None THEN 0 ELSE gen[1],
         read_generation |-> locals.read_generation]

NoLoad == [graph_name |-> ""]

InitExt ==
    /\ generation = <<>>
    /\ store_ok = TRUE
    /\ GRAPH_STATE = None
    /\ pc = "idle"
    /\ load = NoLoad
    /\ auto_reload = AUTO_RELOAD
    /\ reload_debounce_sec = RELOAD_DEBOUNCE_SEC
    /\ now = 0
    /\ age = [g \in GraphNames |-> 0]
    /\ wpc = [w \in Writers |-> None]
    /\ returned = [g \in GraphNames |-> <<>>]
    /\ inv_ret = [g \in GraphNames |-> <<>>]
    /\ last = [op |-> "none", call |-> 0]

\* graph_accel_load(graph_name) called on the backend
Load(names) ==
    \E graph_name \in names :
        /\ pc = "idle"
        /\ pc' = "load_read"
        /\ load' = [graph_name |-> graph_name]
        /\ last' = [op |-> "load", call |-> last.call]
        /\ UNCHANGED <<graph, q, res, generation, store_ok, GRAPH_STATE, auto_reload,
                       reload_debounce_sec, now, age, wpc, returned, inv_ret>>

\* the loader's queries on the source graph; read_generation notes the counter
\* at this moment (bookkeeping, read by no operation)
LoadRead ==
    /\ pc = "load_read"
    /\ pc' = "load_finish"
    /\ load' = [graph_name |-> load.graph_name,
                graph |-> do_load_read(age, load.graph_name),
                read_generation |->
                    IF load.graph_name \in DOMAIN generation
                    THEN generation[load.graph_name] ELSE 0]
    /\ UNCHANGED <<graph, q, res, generation, store_ok, GRAPH_STATE, auto_reload,
                   reload_debounce_sec, now, age, wpc, returned, inv_ret, last>>

\* set_graph with the new GraphState
LoadFinish ==
    /\ pc = "load_finish"
    /\ pc' = "idle"
    /\ GRAPH_STATE' = Some(do_load_finish(load, generation, store_ok, now))
    /\ load' = NoLoad
    /\ UNCHANGED <<graph, q, res, generation, store_ok, auto_reload, reload_debounce_sec,
                   now, age, wpc, returned, inv_ret, last>>

\* the load raising an error (memory limit, SPI error): GRAPH_STATE is kept
LoadError ==
    /\ pc = "load_finish"
    /\ pc' = "idle"
    /\ load' = NoLoad
    /\ UNCHANGED <<graph, q, res, generation, store_ok, GRAPH_STATE, auto_reload,
                   reload_debounce_sec, now, age, wpc, returned, inv_ret, last>>

\* ensure_fresh at the top of a query function
EnsureFresh ==
    LET r == ensure_fresh(GRAPH_STATE, generation, store_ok, auto_reload,
                          reload_debounce_sec, now)
    IN  /\ pc = "idle"
        /\ last' = [op |-> "ensure_fresh", call |-> 1 - last.call]
        /\ IF r = None
           THEN UNCHANGED <<pc, load>>
           ELSE pc' = "load_read" /\ load' = [graph_name |-> r[1]]
        /\ UNCHANGED <<graph, q, res, generation, store_ok, GRAPH_STATE, auto_reload,
                       reload_debounce_sec, now, age, wpc, returned, inv_ret>>

\* graph_accel_invalidate(graph_name) from any connection
Invalidate(names) ==
    \E graph_name \in names :
        LET inv == graph_accel_invalidate(generation, graph_name)
        IN  /\ store_ok
            /\ Len(returned[graph_name]) < MaxGen
            /\ generation' = inv.table
            /\ returned' = [returned EXCEPT ![graph_name] = Append(@, inv.new_gen)]
            /\ UNCHANGED <<graph, q, res, store_ok, GRAPH_STATE, pc, load, auto_reload,
                           reload_debounce_sec, now, age, wpc, inv_ret, last>>

\* a writer connection changing the source graph ...
Mutate(names) ==
    \E w \in Writers, graph_name \in names :
        /\ wpc[w] = None
        /\ age[graph_name] < MaxMutations
        /\ age' = [age EXCEPT ![graph_name] = @ + 1]
        /\ wpc' = [wpc EXCEPT ![w] = Some([graph_name |-> graph_name,
                                           mutation |-> age[graph_name] + 1])]
        /\ UNCHANGED <<graph, q, res, generation, store_ok, GRAPH_STATE, pc, load, auto_reload,
                       reload_debounce_sec, now, returned, inv_ret, last>>

\* ... and then calling graph_accel_invalidate for it
InvalidateAfterMutate ==
    \E w \in Writers :
        /\ wpc[w] # None
        /\ store_ok
        /\ LET graph_name == wpc[w][1].graph_name
               inv == graph_accel_invalidate(generation, graph_name)
           IN  /\ generation' = inv.table
               /\ returned' = [returned EXCEPT ![graph_name] = Append(@, inv.new_gen)]
               /\ inv_ret' = [inv_ret EXCEPT ![graph_name] =
                                 (wpc[w][1].mutation :> inv.new_gen) @@ @]
        /\ wpc' = [wpc EXCEPT ![w] = None]
        /\ UNCHANGED <<graph, q, res, store_ok, GRAPH_STATE, pc, load, auto_reload,
                       reload_debounce_sec, now, age, last>>

\* SET graph_accel.auto_reload / graph_accel.reload_debounce_sec
SetAutoReload ==
    /\ pc = "idle"
    /\ auto_reload' = ~auto_reload
    /\ UNCHANGED <<graph, q, res, generation, store_ok, GRAPH_STATE, pc, load,
                   reload_debounce_sec, now, age, wpc, returned, inv_ret, last>>

SetReloadDebounceSec ==
    \E secs \in 0..MaxDebounce :
        /\ pc = "idle"
        /\ secs # reload_debounce_sec
        /\ reload_debounce_sec' = secs
        /\ UNCHANGED <<graph, q, res, generation, store_ok, GRAPH_STATE, pc, load,
                       auto_reload, now, age, wpc, returned, inv_ret, last>>

\* the clock advancing
Tick ==
    /\ now < MaxTime
    /\ now' = now + 1
    /\ UNCHANGED <<graph, q, res, generation, store_ok, GRAPH_STATE, pc, load, auto_reload,
                   reload_debounce_sec, age, wpc, returned, inv_ret, last>>

\* the generation table becoming unreadable to the backend, or readable again
StoreAccess ==
    /\ store_ok' = ~store_ok
    /\ UNCHANGED <<graph, q, res, generation, GRAPH_STATE, pc, load, auto_reload,
                   reload_debounce_sec, now, age, wpc, returned, inv_ret, last>>

InitGen ==
    /\ graph = Graph_new
    /\ q = [op |-> "none"]
    /\ res = [op |-> "none"]
    /\ InitExt

NextGen ==
    \/ Load(GraphNames)
    \/ LoadRead
    \/ LoadFinish
    \/ LoadError
    \/ EnsureFresh
    \/ Invalidate(GraphNames)
    \/ SetAutoReload
    \/ SetReloadDebounceSec
    \/ Tick
    \/ StoreAccess

SpecGen == InitGen /\ [][NextGen]_vars

NextLoad ==
    \/ Load({"g"})
    \/ LoadRead
    \/ LoadFinish
    \/ EnsureFresh
    \/ SetReloadDebounceSec
    \/ Mutate({"g"})
    \/ InvalidateAfterMutate

SpecLoad == InitGen /\ [][NextLoad]_vars

(***************************************************************************)
(* ext/src: status.rs                                                      *)
(***************************************************************************)
\* variant of graph_accel_status that also calls a snapshot stale when its
\* generation equals the current one
graph_accel_status_le(gs, table, readable, configured) ==
    IF gs # None
    THEN LET fetched     == fetch_generation(table, readable, gs[1].source_graph)
             current_gen == IF fetched = None THEN 0 ELSE fetched[1]
             is_stale    == gs[1].loaded_generation <= current_gen
         IN  [source_graph |-> Some(gs[1].source_graph),
              status |-> IF is_stale THEN "stale" ELSE "loaded",
              loaded_generation |-> gs[1].loaded_generation,
              current_generation |-> current_gen,
              is_stale |-> is_stale]
    ELSE LET fetched     == IF configured = None THEN None
                            ELSE fetch_generation(table, readable, configured[1])
             current_gen == IF fetched = None THEN 0 ELSE fetched[1]
         IN  [source_graph |-> configured,
              status |-> "not_loaded",
              loaded_generation |-> 0,
              current_generation |-> current_gen,
              is_stale |-> FALSE]

\* the row of graph_accel_status(); `configured` is the graph_accel.source_graph
\* setting.  The size columns (node_count, edge_count, memory_bytes,
\* rel_type_count) are read off gs.graph and are not part of the row here,
\* where a snapshot stands for the source version it was read at.
graph_accel_status(gs, table, readable, configured) ==
    IF gs # None
    THEN LET fetched     == fetch_generation(table, readable, gs[1].source_graph)
             current_gen == IF fetched = None THEN 0 ELSE fetched[1]
             is_stale    == gs[1].loaded_generation < current_gen
         IN  [source_graph |-> Some(gs[1].source_graph),
              status |-> IF is_stale THEN "stale" ELSE "loaded",
              loaded_generation |-> gs[1].loaded_generation,
              current_generation |-> current_gen,
              is_stale |-> is_stale]
    ELSE LET fetched     == IF configured = None THEN None
                            ELSE fetch_generation(table, readable, configured[1])
             current_gen == IF fetched = None THEN 0 ELSE fetched[1]
         IN  [source_graph |-> configured,
              status |-> "not_loaded",
              loaded_generation |-> 0,
              current_generation |-> current_gen,
              is_stale |-> FALSE]

\* the settings of graph_accel.source_graph: unset, or naming a graph
SourceGraphSettings == {None} \cup { Some(name) : name \in GraphNames }

\* SELECT * FROM graph_accel_status() on the backend
Status ==
    \E configured \in SourceGraphSettings :
        /\ pc = "idle"
        /\ q' = [op |-> "graph_accel_status", configured |-> configured]
        /\ res' = graph_accel_status(GRAPH_STATE, generation, store_ok, configured)
        /\ last' = [op |-> "status", call |-> 1 - last.call]
        /\ UNCHANGED <<graph, generation, store_ok, GRAPH_STATE, pc, load, auto_reload,
                       reload_debounce_sec, now, age, wpc, returned, inv_ret>>

NextStatus ==
    \/ Load(GraphNames)
    \/ LoadRead
    \/ LoadFinish
    \/ LoadError
    \/ EnsureFresh
    \/ Invalidate(GraphNames)
    \/ SetReloadDebounceSec
    \/ StoreAccess
    \/ Status

SpecStatus == InitGen /\ [][NextStatus]_vars

(***************************************************************************)
(* Operations on the graph and queries                                     *)
(***************************************************************************)
NoQuery == [op |-> "none"]

MinConfidences == {None, Some(ConfHigh)}

\* (relationship type, confidence) of the edge records offered to the loader:
\* not loaded (NaN), below the threshold, and equal to the threshold
EdgeKinds == {<<"A", NO_CONFIDENCE>>, <<"B", ConfLow>>, <<"A", ConfHigh>>}

EdgeRecord(from, to, kind) ==
    [from_id |-> from, to_id |-> to, rel_type |-> kind[1],
     from_label |-> "Node", to_label |-> "Node",
     from_app_id |-> None, to_app_id |-> None, confidence |-> kind[2]]

InitGraph ==
    /\ graph = Graph_new
    /\ q = NoQuery
    /\ res = NoQuery
    /\ InitExt

\* Graph::add_node on the graph being loaded
AddNode(ids) ==
    \E id \in ids, label \in Labels :
        /\ q = NoQuery
        /\ id \notin DOMAIN graph.nodes
        /\ graph' = add_node(graph, id, label, None)
        /\ UNCHANGED <<q, res, ext>>

\* Graph::intern_rel_type then Graph::add_edge (two-phase loading)
AddEdge(pairs, kinds, max) ==
    \E p \in pairs, kind \in kinds :
        LET rt == intern_rel_type(graph, kind[1])
        IN  /\ q = NoQuery
            /\ edge_count(graph) < max
            /\ ~rt.panic
            /\ graph' = add_edge(rt.graph, p[1], p[2], rt.id, kind[2])
            /\ UNCHANGED <<q, res, ext>>

\* Graph::load_edges on a stream of one record
LoadEdges(pairs, kinds, max) ==
    \E p \in pairs, kind \in kinds :
        /\ q = NoQuery
        /\ edge_count(graph) < max
        /\ graph' = load_edges(graph, <<EdgeRecord(p[1], p[2], kind)>>)
        /\ UNCHANGED <<q, res, ext>>

\* one bfs_neighborhood call against the loaded graph
QueryBfs ==
    \E start \in Starts, max_depth \in 0..MaxDepth,
       direction \in Directions, min_confidence \in MinConfidences :
        /\ q = NoQuery
        /\ q' = [op |-> "bfs_neighborhood", start |-> start, max_depth |-> max_depth,
                 direction |-> direction, min_confidence |-> min_confidence]
        /\ res' = bfs_neighborhood(graph, start, max_depth, direction, min_confidence)
        /\ UNCHANGED <<graph, ext>>

NextBfs ==
    \/ AddNode(NodeIds)
    \/ LoadEdges(NodeIds \X NodeIds, EdgeKinds, MaxEdges)
    \/ QueryBfs

SpecBfs == InitGraph /\ [][NextBfs]_vars

\* one shortest_path call against the loaded graph
QuerySp ==
    \E start \in Starts, target \in NodeIds, max_hops \in 0..MaxDepth,
       direction \in Directions, min_confidence \in MinConfidences :
        /\ q = NoQuery
        /\ q' = [op |-> "shortest_path", start |-> start, target |-> target,
                 max_hops |-> max_hops, direction |-> direction,
                 min_confidence |-> min_confidence]
        /\ res' = shortest_path(graph, start, target, max_hops, direction, min_confidence)
        /\ UNCHANGED <<graph, ext>>

NextSp ==
    \/ AddNode(NodeIds)
    \/ LoadEdges(NodeIds \X NodeIds, EdgeKinds, MaxEdges)
    \/ QuerySp

SpecSp == InitGraph /\ [][NextSp]_vars

\* make_diamond of the tests: 0->1->3 and 0->2->3
make_diamond == << <<0, 1>>, <<1, 3>>, <<0, 2>>, <<2, 3>> >>

\* the edges added to the diamond: cross edges, a direct edge, back edges,
\* parallel edges and a self-loop, all without confidence ...
KspPairs == {<<1, 2>>, <<2, 1>>, <<0, 3>>, <<3, 0>>, <<0, 1>>, <<1, 3>>, <<3, 1>>, <<1, 1>>}

KspKinds == {<<"A", NO_CONFIDENCE>>}

\* ... and two edges below the confidence threshold
KspLowPairs == {<<0, 3>>, <<2, 3>>}

KspLowKinds == {<<"B", ConfLow>>}

KspEndpoints == {<<0, 3>>, <<3, 0>>, <<0, 0>>}

\* vertex loading with every label loaded, or with node 1's label filtered out
KspRegistered == {KspNodeIds, KspNodeIds \ {1}}

RECURSIVE add_nodes(_, _)
add_nodes(g, ids) ==
    IF ids = {} THEN g
    ELSE LET id == CHOOSE x \in ids : TRUE
         IN  add_nodes(add_node(g, id, "Node", None), ids \ {id})

RECURSIVE add_edges(_, _, _)
add_edges(g, pairs, kind) ==
    IF pairs = <<>> THEN g
    ELSE LET rt == intern_rel_type(g, kind[1])
         IN  add_edges(add_edge(rt.graph, Head(pairs)[1], Head(pairs)[2], rt.id, kind[2]),
                       Tail(pairs), kind)

\* two-phase loading of the diamond: the vertices, then the edges
InitKsp ==
    /\ \E ids \in KspRegistered :
           graph = add_edges(add_nodes(Graph_new, ids), make_diamond,
                             <<"A", NO_CONFIDENCE>>)
    /\ q = NoQuery
    /\ res = NoQuery
    /\ InitExt

\* one k_shortest_paths call against the loaded graph
QueryKsp ==
    \E e \in KspEndpoints, max_hops \in 0..MaxHops, k \in 0..MaxK,
       direction \in Directions, min_confidence \in MinConfidences :
        /\ q = NoQuery
        /\ q' = [op |-> "k_shortest_paths", start |-> e[1], target |-> e[2],
                 max_hops |-> max_hops, k |-> k, direction |-> direction,
                 min_confidence |-> min_confidence]
        /\ res' = k_shortest_paths(graph, e[1], e[2], max_hops, k,
                                   direction, min_confidence)
        /\ UNCHANGED <<graph, ext>>

NextKsp ==
    \/ AddEdge(KspPairs, KspKinds, MaxKspEdges)
    \/ AddEdge(KspLowPairs, KspLowKinds, MaxKspEdges)
    \/ QueryKsp

SpecKsp == InitKsp /\ [][NextKsp]_vars

\* shortest_path on the diamond with edges added, where equal-length paths
\* compete
SpDiamondEndpoints == {<<0, 3>>, <<3, 0>>, <<0, 1>>, <<1, 2>>}

QuerySpDiamond ==
    \E e \in SpDiamondEndpoints, max_hops \in 0..MaxHops,
       direction \in Directions, min_confidence \in MinConfidences :
        /\ q = NoQuery
        /\ q' = [op |-> "shortest_path", start |-> e[1], target |-> e[2],
                 max_hops |-> max_hops, direction |-> direction,
                 min_confidence |-> min_confidence]
        /\ res' = shortest_path(graph, e[1], e[2], max_hops, direction, min_confidence)
        /\ UNCHANGED <<graph, ext>>

NextSpDiamond ==
    \/ AddEdge(KspPairs, KspKinds, MaxKspEdges)
    \/ AddEdge(KspLowPairs, KspLowKinds, MaxKspEdges)
    \/ QuerySpDiamond

SpecSpDiamond == InitKsp /\ [][NextSpDiamond]_vars

\* both path queries on the diamond with edges added
NextPaths ==
    \/ AddEdge(KspPairs, KspKinds, MaxKspEdges)
    \/ AddEdge(KspLowPairs, KspLowKinds, MaxKspEdges)
    \/ QuerySpDiamond
    \/ QueryKsp

SpecPaths == InitKsp /\ [][NextPaths]_vars

\* the thresholds of the filter: none, 0.8, and NaN (any f32 can be passed)
FilterThresholds == {None, Some(ConfHigh), Some(NO_CONFIDENCE)}

\* the edges iter_neighbors yields at one node of the loaded graph
QueryNeighbors ==
    \E n \in NodeIds, direction \in Directions, min_confidence \in FilterThresholds :
        /\ q = NoQuery
        /\ q' = [op |-> "iter_neighbors", node |-> n, direction |-> direction,
                 min_confidence |-> min_confidence]
        /\ res' = iter_neighbors(graph, n, direction, min_confidence)
        /\ UNCHANGED <<graph, ext>>

\* one extract_subgraph call against the loaded graph
QuerySubgraph ==
    \E start \in Starts, max_depth \in 0..MaxDepth,
       direction \in Directions, min_confidence \in FilterThresholds :
        \E order \in IterationOrders(SubgraphNodeSet(graph, start, max_depth,
                                                     direction, min_confidence)) :
            /\ q = NoQuery
            /\ q' = [op |-> "extract_subgraph", start |-> start,
                     max_depth |-> max_depth, direction |-> direction,
                     min_confidence |-> min_confidence]
            /\ res' = extract_subgraph(graph, start, max_depth, direction,
                                       min_confidence, order)
            /\ UNCHANGED <<graph, ext>>

\* the edges offered before a subgraph query: a self-loop at the start, a
\* cycle through it, and a path leading two steps away from it
SubgraphPairs == {<<0, 0>>, <<0, 1>>, <<1, 0>>, <<1, 2>>}

NextSub ==
    \/ AddNode(NodeIds)
    \/ LoadEdges(SubgraphPairs, EdgeKinds, MaxEdges)
    \/ QueryNeighbors
    \/ QuerySubgraph

SpecSub == InitGraph /\ [][NextSub]_vars

\* the edge records offered before a degree query: one kind is enough
DegreeKinds == {<<"A", NO_CONFIDENCE>>}

\* one degree_centrality call against the loaded graph
QueryDegree ==
    \E top_n \in 0..MaxTopN :
        /\ q = NoQuery
        /\ q' = [op |-> "degree_centrality", top_n |-> top_n]
        /\ res' = degree_centrality(graph, top_n)
        /\ UNCHANGED <<graph, ext>>

NextDegree ==
    \/ AddNode(NodeIds)
    \/ AddEdge(NodeIds \X NodeIds, DegreeKinds, MaxDegreeEdges)
    \/ LoadEdges(NodeIds \X NodeIds, DegreeKinds, MaxDegreeEdges)
    \/ QueryDegree

SpecDegree == InitGraph /\ [][NextDegree]_vars

\* the store under any sequence of add_node, add_edge and load_edges calls
NextStore ==
    \/ AddNode(NodeIds)
    \/ AddEdge(NodeIds \X NodeIds, EdgeKinds, MaxEdges)
    \/ LoadEdges(NodeIds \X NodeIds, EdgeKinds, MaxEdges)

SpecStore == InitGraph /\ [][NextStore]_vars

\* load.rs: enum Filter
Filter_All == [all |-> TRUE, names |-> {}]

Filter_Set(names) == [all |-> FALSE, names |-> names]

\* spec: the comma-separated items of the setting, trimmed
parse_filter(spec) ==
    IF spec = <<"*">> THEN Filter_All
    ELSE Filter_Set({ spec[i] : i \in { j \in 1..Len(spec) : spec[j] # "" } })

matches_filter(name, filter) == filter.all \/ name \in filter.names

\* load_vertices: add_node for every row of the vertex table of label_name
RECURSIVE load_vertices(_, _, _)
load_vertices(g, ids, label_name) ==
    IF ids = {} THEN g
    ELSE LET id == CHOOSE x \in ids : TRUE
         IN  load_vertices(add_node(g, id, label_name, None), ids \ {id}, label_name)

\* the two loops of graph_accel_load over the label catalog
RECURSIVE LoadVertexLabels(_, _, _, _)
LoadVertexLabels(g, labels, source, node_label_filter) ==
    IF labels = <<>> THEN g
    ELSE LET label == Head(labels)
             g1 == IF label.kind = "v" /\ matches_filter(label.name, node_label_filter)
                   THEN load_vertices(g, { id \in DOMAIN source.vertices :
                                             source.vertices[id] = label.name }, label.name)
                   ELSE g
         IN  LoadVertexLabels(g1, Tail(labels), source, node_label_filter)

RECURSIVE LoadEdgeLabels(_, _, _, _)
LoadEdgeLabels(g, labels, source, edge_type_filter) ==
    IF labels = <<>> THEN g
    ELSE LET label == Head(labels)
             g1 == IF label.kind = "e" /\ matches_filter(label.name, edge_type_filter)
                   THEN add_edges(g, source.edges[label.name], <<label.name, NO_CONFIDENCE>>)
                   ELSE g
         IN  LoadEdgeLabels(g1, Tail(labels), source, edge_type_filter)

\* the graph that graph_accel_load passes to set_graph
graph_accel_load(source, labels, node_labels, edge_types) ==
    LET node_label_filter == parse_filter(node_labels)
        edge_type_filter == parse_filter(edge_types)
        g1 == LoadVertexLabels(Graph_new, labels, source, node_label_filter)
    IN  LoadEdgeLabels(g1, labels, source, edge_type_filter)

\* the source graph: every vertex has one of two labels, every edge joins two
\* existing vertices and has one of two types; rows in the order SPI returns them
VertexTables == [NodeIds -> {"Concept", "Source"}]

EdgeRows(n) == [1..n -> NodeIds \X NodeIds]

EdgeTables ==
    UNION { { [A |-> a, B |-> b] : a \in EdgeRows(k[1]), b \in EdgeRows(k[2]) } :
            k \in { c \in (0..MaxEdges) \X (0..MaxEdges) : c[1] + c[2] <= MaxEdges } }

\* the label catalog, in the two orders the catalog query may return
Catalogs ==
    { << [name |-> "Concept", kind |-> "v"], [name |-> "Source", kind |-> "v"],
         [name |-> "A", kind |-> "e"], [name |-> "B", kind |-> "e"] >>,
      << [name |-> "B", kind |-> "e"], [name |-> "Source", kind |-> "v"],
         [name |-> "A", kind |-> "e"], [name |-> "Concept", kind |-> "v"] >> }

\* graph_accel.node_labels and graph_accel.edge_types: everything, or one name
NodeLabelSettings == {<<"*">>, <<"Concept">>}

EdgeTypeSettings == {<<"*">>, <<"A">>}

\* graph_accel_load into a fresh Graph::new()
ExtLoad ==
    /\ q = NoQuery
    /\ graph = Graph_new
    /\ \E vertices \in VertexTables, edges \in EdgeTables, labels \in Catalogs,
          node_labels \in NodeLabelSettings, edge_types \in EdgeTypeSettings :
           graph' = graph_accel_load([vertices |-> vertices, edges |-> edges],
                                     labels, node_labels, edge_types)
    /\ UNCHANGED <<q, res, ext>>

\* the two load paths: the core's load_edges and the extension's two phases
NextExtLoad ==
    \/ LoadEdges(NodeIds \X NodeIds, EdgeKinds, MaxEdges)
    \/ ExtLoad

SpecExtLoad == InitGraph /\ [][NextExtLoad]_vars

\* the app_id property of a vertex: absent, or one of two values, which two
\* vertices may share
AppIds == {None, Some("a"), Some("b")}

IndexKinds == {<<"A", NO_CONFIDENCE>>}

\* what the source says about node id: the metadata it was registered with
ConsistentAppId(g, id, app_id) ==
    id \in DOMAIN g.nodes => g.nodes[id].app_id = app_id

\* Graph::add_node for a vertex with an app_id property
AddNodeWithAppId ==
    \E id \in NodeIds, app_id \in AppIds :
        /\ q = NoQuery
        /\ id \notin DOMAIN graph.nodes
        /\ graph' = add_node(graph, id, "Node", app_id)
        /\ UNCHANGED <<q, res, ext>>

\* Graph::load_edges on a stream of one record that carries app_ids
LoadEdgesWithAppIds ==
    \E p \in NodeIds \X NodeIds, kind \in IndexKinds,
       from_app_id \in AppIds, to_app_id \in AppIds :
        /\ q = NoQuery
        /\ edge_count(graph) < MaxEdges
        /\ ConsistentAppId(graph, p[1], from_app_id)
        /\ ConsistentAppId(graph, p[2], to_app_id)
        /\ p[1] = p[2] => from_app_id = to_app_id
        /\ graph' = load_edges(graph,
               << [EdgeRecord(p[1], p[2], kind) EXCEPT !.from_app_id = from_app_id,
                                                       !.to_app_id = to_app_id] >>)
        /\ UNCHANGED <<q, res, ext>>

NextIndex ==
    \/ AddNodeWithAppId
    \/ LoadEdgesWithAppIds

SpecIndex == InitGraph /\ [][NextIndex]_vars

\* bfs_neighborhood on a graph loaded in two phases, as the extension loads
\* it: the vertices by add_node, the edges by add_edge
NextTwoPhase ==
    \/ AddNode(NodeIds)
    \/ AddEdge(NodeIds \X NodeIds, DegreeKinds, MaxEdges)
    \/ QueryBfs

SpecTwoPhase == InitGraph /\ [][NextTwoPhase]_vars

\* bfs_neighborhood step by step: res holds the locals of the call in
\* progress (visited, queue, and the entries popped so far), then its result
BfsCall ==
    \E start \in Starts, max_depth \in 0..MaxDepth, direction \in Directions :
        /\ q = NoQuery
        /\ q' = [op |-> "bfs_neighborhood", start |-> start, max_depth |-> max_depth,
                 direction |-> direction, min_confidence |-> None]
        /\ res' = IF node(graph, start) = None
                  THEN [pc |-> "done", neighbors |-> {}, nodes_visited |-> 0]
                  ELSE [pc |-> "while", visited |-> BfsInitial(start).visited,
                        queue |-> BfsInitial(start).queue, popped |-> <<>>]
        /\ UNCHANGED <<graph, ext>>

\* while let Some((current, depth)) = queue.pop_front() { .. }: one iteration
BfsWhile ==
    /\ q.op = "bfs_neighborhood"
    /\ res.pc = "while"
    /\ res.queue # <<>>
    /\ LET st == BfsIteration(graph, [visited |-> res.visited, queue |-> res.queue],
                              q.max_depth, q.direction, q.min_confidence)
       IN  res' = [pc |-> "while", visited |-> st.visited, queue |-> st.queue,
                   popped |-> Append(res.popped, Head(res.queue))]
    /\ UNCHANGED <<graph, q, ext>>

\* the queue is empty: the result is built and returned
BfsReturn ==
    /\ q.op = "bfs_neighborhood"
    /\ res.pc = "while"
    /\ res.queue = <<>>
    /\ res' = [pc |-> "done",
               neighbors |-> BfsResult(graph, res.visited, q.start).neighbors,
               nodes_visited |-> BfsResult(graph, res.visited, q.start).nodes_visited]
    /\ UNCHANGED <<graph, q, ext>>

NextBfsRun ==
    \/ AddNode(NodeIds)
    \/ LoadEdges(NodeIds \X NodeIds, DegreeKinds, MaxEdges)
    \/ BfsCall
    \/ BfsWhile
    \/ BfsReturn

\* a call that has started runs on: the loop and the return are not suspended
SpecBfsRun ==
    InitGraph /\ [][NextBfsRun]_vars /\ WF_vars(BfsWhile) /\ WF_vars(BfsReturn)

\* ext/src/util.rs, state.rs and the query entry points (neighborhood.rs,
\* subgraph.rs, path.rs). error!() aborts the call: the outcome of an entry
\* point is the error raised, or the bound handed to the core and the result
RaisedError(message) == [error |-> Some(message), bound |-> None, result |-> None]

Returned(bound, result) == [error |-> None, bound |-> Some(bound), result |-> Some(result)]

\* value as u32
as_u32(value) == value % (2 ^ IntBits)

\* None stands for the error!() of the unrecognized case
parse_direction(s) ==
    CASE s \in {"outgoing", "out"} -> Some("Outgoing")
      [] s \in {"incoming", "in"} -> Some("Incoming")
      [] s = "both" -> Some("Both")
      [] OTHER -> None

\* None stands for the error!() of value < 0
check_non_negative(value, param_name) ==
    IF value < 0 THEN None ELSE Some(as_u32(value))

\* id_str.parse::<u64>().ok() on the identifiers offered
parse_u64(id_str) ==
    CASE id_str = "0" -> Some(0)
      [] id_str = "1" -> Some(1)
      [] id_str = "2" -> Some(2)
      [] OTHER -> None

resolve_app_id(g, app_id) ==
    IF app_id \in DOMAIN g.app_id_index THEN Some(g.app_id_index[app_id]) ELSE None

\* None stands for the error!() "node not found"
resolve_node(g, id_str) ==
    IF resolve_app_id(g, id_str) # None THEN resolve_app_id(g, id_str)
    ELSE IF parse_u64(id_str) # None /\ node(g, parse_u64(id_str)[1]) # None
    THEN parse_u64(id_str)
    ELSE None

\* min_confidence is left at its default NULL
graph_accel_neighborhood(g, start_id, max_depth, direction_filter) ==
    LET direction == parse_direction(direction_filter)
        internal_id == resolve_node(g, start_id)
    IN  IF direction = None THEN RaisedError("invalid direction_filter")
        ELSE IF internal_id = None THEN RaisedError("node not found")
        ELSE Returned(as_u32(max_depth),
                 bfs_neighborhood(g, internal_id[1], as_u32(max_depth), direction[1], None))

graph_accel_subgraph(g, start_id, max_depth, direction_filter, order) ==
    LET direction == parse_direction(direction_filter)
        internal_id == resolve_node(g, start_id)
    IN  IF direction = None THEN RaisedError("invalid direction_filter")
        ELSE IF internal_id = None THEN RaisedError("node not found")
        ELSE Returned(as_u32(max_depth),
                 extract_subgraph(g, internal_id[1], as_u32(max_depth), direction[1],
                                  None, order))

graph_accel_path(g, from_id, to_id, max_hops, direction_filter) ==
    LET direction == parse_direction(direction_filter)
        hops == check_non_negative(max_hops, "max_hops")
        start == resolve_node(g, from_id)
        target == resolve_node(g, to_id)
    IN  IF direction = None THEN RaisedError("invalid direction_filter")
        ELSE IF hops = None THEN RaisedError("max_hops must be non-negative")
        ELSE IF start = None \/ target = None THEN RaisedError("node not found")
        ELSE Returned(hops[1],
                 shortest_path(g, start[1], target[1], hops[1], direction[1], None))

graph_accel_paths(g, from_id, to_id, max_hops, max_paths, direction_filter) ==
    LET direction == parse_direction(direction_filter)
        hops == check_non_negative(max_hops, "max_hops")
        k == check_non_negative(max_paths, "max_paths")
        start == resolve_node(g, from_id)
        target == resolve_node(g, to_id)
    IN  IF direction = None THEN RaisedError("invalid direction_filter")
        ELSE IF hops = None THEN RaisedError("max_hops must be non-negative")
        ELSE IF k = None THEN RaisedError("max_paths must be non-negative")
        ELSE IF start = None \/ target = None THEN RaisedError("node not found")
        ELSE Returned(hops[1],
                 k_shortest_paths(g, start[1], target[1], hops[1], k[1], direction[1], None))

\* the arguments offered to the entry points: the most negative i32, -1, and
\* the small non-negative bounds
IntArgs == {-(2 ^ (IntBits - 1)), -1} \cup (0..MaxDepth)

DirectionFilters == {"outgoing", "in", "both", "sideways"}

StartIds == {"0", "x"}

TargetIds == {"1"}

CallNeighborhood ==
    \E start_id \in StartIds, max_depth \in IntArgs, direction_filter \in DirectionFilters :
        /\ q = NoQuery
        /\ q' = [op |-> "graph_accel_neighborhood", start_id |-> start_id,
                 max_depth |-> max_depth, direction_filter |-> direction_filter]
        /\ res' = graph_accel_neighborhood(graph, start_id, max_depth, direction_filter)
        /\ UNCHANGED <<graph, ext>>

CallSubgraph ==
    \E start_id \in StartIds, max_depth \in IntArgs, direction_filter \in DirectionFilters :
        \E order \in IF parse_direction(direction_filter) = None
                        \/ resolve_node(graph, start_id) = None
                     THEN {<<>>}
                     ELSE IterationOrders(SubgraphNodeSet(graph,
                              resolve_node(graph, start_id)[1], as_u32(max_depth),
                              parse_direction(direction_filter)[1], None)) :
            /\ q = NoQuery
            /\ q' = [op |-> "graph_accel_subgraph", start_id |-> start_id,
                     max_depth |-> max_depth, direction_filter |-> direction_filter]
            /\ res' = graph_accel_subgraph(graph, start_id, max_depth,
                                           direction_filter, order)
            /\ UNCHANGED <<graph, ext>>

CallPath ==
    \E from_id \in StartIds, to_id \in TargetIds, max_hops \in IntArgs,
       direction_filter \in DirectionFilters :
        /\ q = NoQuery
        /\ q' = [op |-> "graph_accel_path", from_id |-> from_id, to_id |-> to_id,
                 max_hops |-> max_hops, direction_filter |-> direction_filter]
        /\ res' = graph_accel_path(graph, from_id, to_id, max_hops, direction_filter)
        /\ UNCHANGED <<graph, ext>>

CallPaths ==
    \E from_id \in StartIds, to_id \in TargetIds, max_hops \in IntArgs,
       max_paths \in IntArgs, direction_filter \in DirectionFilters :
        /\ q = NoQuery
        /\ q' = [op |-> "graph_accel_paths", from_id |-> from_id, to_id |-> to_id,
                 max_hops |-> max_hops, max_paths |-> max_paths,
                 direction_filter |-> direction_filter]
        /\ res' = graph_accel_paths(graph, from_id, to_id, max_hops, max_paths,
                                    direction_filter)
        /\ UNCHANGED <<graph, ext>>

NextEntry ==
    \/ AddNode(NodeIds)
    \/ LoadEdges(NodeIds \X NodeIds, DegreeKinds, MaxEdges)
    \/ CallNeighborhood
    \/ CallSubgraph
    \/ CallPath
    \/ CallPaths

SpecEntry == InitGraph /\ [][NextEntry]_vars

\* queries of all four traversals over graphs whose edges were added without
\* registering their endpoints, so that unregistered nodes carry edges
NextUnknown ==
    \/ AddNode(NodeIds)
    \/ AddEdge(SubgraphPairs, DegreeKinds, MaxEdges)
    \/ QueryBfs
    \/ QuerySubgraph
    \/ QuerySp
    \/ QueryKsp

SpecUnknown == InitGraph /\ [][NextUnknown]_vars

\* the interner after format!("REL_{}", i) was interned for i = 0 .. n-1 in
\* turn, as the loop of test_rel_type_overflow does; the name REL_i is
\* written i
interned_in_turn(n) ==
    [Graph_new EXCEPT !.rel_types = [i \in 1..n |-> i - 1],
                      !.rel_type_map = [name \in 0..(n - 1) |-> name]]

\* interner sizes the calls start from: empty, and up to two below the cap
InternerSizes == {0, MAX_REL_TYPES - 2, MAX_REL_TYPES - 1, MAX_REL_TYPES}

\* names offered to intern_rel_type: REL_0 .. REL_2 and the names around
\* the cap
InternNames ==
    {0, 1, 2, MAX_REL_TYPES - 2, MAX_REL_TYPES - 1, MAX_REL_TYPES, MAX_REL_TYPES + 1}

InitIntern ==
    /\ \E n \in InternerSizes : graph = interned_in_turn(n)
    /\ q = NoQuery
    /\ res = NoQuery
    /\ InitExt

\* Graph::intern_rel_type(name); a panic unwinds before the interner is
\* written
Intern ==
    \E rel_type \in InternNames :
        LET rt == intern_rel_type(graph, rel_type)
        IN  /\ q' = [op |-> "intern_rel_type", rel_type |-> rel_type,
                     call |-> IF q = NoQuery THEN 0 ELSE 1 - q.call]
            /\ res' = [id |-> rt.id, panic |-> rt.panic]
            /\ graph' = rt.graph
            /\ UNCHANGED ext

\* Graph::rel_type_name(id) for a RelTypeId (u16)
RelTypeName ==
    \E id \in {0, 1, 2, 3, MAX_REL_TYPES - 1, MAX_REL_TYPES} :
        /\ q' = [op |-> "rel_type_name", id |-> id,
                 call |-> IF q = NoQuery THEN 0 ELSE 1 - q.call]
        /\ res' = rel_type_name(graph, id)
        /\ UNCHANGED <<graph, ext>>

NextIntern ==
    \/ Intern
    \/ RelTypeName

SpecIntern == InitIntern /\ [][NextIntern]_vars

\* the same calls on an interner that starts empty
SpecInternFresh == InitGraph /\ [][NextIntern]_vars

\* the longest debounce the backend can be set to, in clock ticks
DebounceHorizon ==
    TicksPerSec * (IF MaxDebounce > RELOAD_DEBOUNCE_SEC THEN MaxDebounce
                   ELSE RELOAD_DEBOUNCE_SEC)

\* time passing, told from the present: the Instant of the load recedes by
\* one tick.  loaded_at.elapsed() is only compared with the debounce, so past
\* the longest debounce it is not counted further.
Elapse ==
    /\ GRAPH_STATE # None
    /\ now - GRAPH_STATE[1].loaded_at < DebounceHorizon
    /\ GRAPH_STATE' = Some([GRAPH_STATE[1] EXCEPT !.loaded_at = @ - 1])
    /\ UNCHANGED <<graph, q, res, generation, store_ok, pc, load, auto_reload,
                   reload_debounce_sec, now, age, wpc, returned, inv_ret, last>>

\* one backend with its queries (each begins with ensure_fresh), loads that
\* complete or fail, and the environment: invalidations, settings, the
\* generation table's readability, time
NextRepair ==
    \/ Load({"g"})
    \/ LoadRead
    \/ LoadFinish
    \/ LoadError
    \/ EnsureFresh
    \/ Invalidate({"g"})
    \/ SetAutoReload
    \/ SetReloadDebounceSec
    \/ StoreAccess
    \/ Elapse

\* queries keep coming, a load that has begun runs on, and time passes
SpecRepair ==
    /\ InitGen
    /\ [][NextRepair]_vars
    /\ WF_vars(EnsureFresh)
    /\ WF_vars(LoadRead)
    /\ WF_vars(LoadFinish \/ LoadError)
    /\ WF_vars(Elapse)

(***************************************************************************)
(* ext/src: load.rs, step by step                                          *)
(***************************************************************************)
\* one iteration of the vertex loop of graph_accel_load
LoadVertexLabel(g, label, source, node_label_filter) ==
    IF label.kind = "v" /\ matches_filter(label.name, node_label_filter)
    THEN load_vertices(g, { id \in DOMAIN source.vertices :
                              source.vertices[id] = label.name }, label.name)
    ELSE g

\* one iteration of the edge loop of graph_accel_load
LoadEdgeLabel(g, label, source, edge_type_filter) ==
    IF label.kind = "e" /\ matches_filter(label.name, edge_type_filter)
    THEN add_edges(g, source.edges[label.name], <<label.name, NO_CONFIDENCE>>)
    ELSE g

\* Graph::memory_usage / (1024 * 1024): an estimate that grows with the nodes
\* and edges held, counted here as one MiB for each of them
memory_mb(g) == node_count(g) + edge_count(g)

\* variant of set_graph that keeps the source name of the state it replaces
set_graph_keep_name(cell, state) ==
    IF cell = None THEN Some(state)
    ELSE Some([state EXCEPT !.source_graph = cell[1].source_graph])

\* state.rs: *cell.borrow_mut() = Some(state)
set_graph(cell, state) == Some(state)

\* the AGE graphs of the database, by name
AgeGraphs ==
    [g |-> [vertices |-> (0 :> "Concept") @@ (1 :> "Concept"),
            edges |-> [A |-> << <<0, 1>> >>, B |-> <<>>]],
     h |-> [vertices |-> (1 :> "Concept") @@ (2 :> "Source"),
            edges |-> [A |-> << <<1, 2>> >>, B |-> << <<2, 1>> >>]]]

\* the names graph_accel_load is called with: two graphs and a missing one
LoadNames == {"g", "h", "missing"}

LabelCatalog ==
    << [name |-> "Concept", kind |-> "v"], [name |-> "Source", kind |-> "v"],
       [name |-> "A", kind |-> "e"], [name |-> "B", kind |-> "e"] >>

\* graph_accel.max_memory_mb: a cap the graphs exceed, and the boot value
MemoryCaps == {2, 4096}

\* graph_accel_load up to the label catalog: error! when the AGE graph does
\* not exist, otherwise Graph::new() and the filters parsed
\* (graph_accel.edge_types at its boot value)
SnapLoad ==
    \E gname \in LoadNames, node_labels \in NodeLabelSettings,
       edge_types \in {<<"*">>} :
        /\ pc = "idle"
        /\ IF gname \notin DOMAIN AgeGraphs
           THEN /\ last' = [op |-> "load_error", call |-> 1 - last.call,
                             message |-> "AGE graph does not exist"]
                /\ UNCHANGED <<pc, load>>
           ELSE /\ pc' = "vertices"
                /\ load' = [graph_name |-> gname, start |-> now, graph |-> Graph_new,
                            node_label_filter |-> parse_filter(node_labels),
                            edge_type_filter |-> parse_filter(edge_types),
                            todo |-> LabelCatalog]
                /\ last' = [op |-> "load", call |-> last.call]
        /\ UNCHANGED <<graph, q, res, generation, store_ok, GRAPH_STATE, auto_reload,
                       reload_debounce_sec, now, age, wpc, returned, inv_ret>>

\* the vertex loop, one label at a time, on the local graph
SnapVertexLabel ==
    /\ pc = "vertices"
    /\ IF load.todo = <<>>
       THEN pc' = "edges" /\ load' = [load EXCEPT !.todo = LabelCatalog]
       ELSE /\ load' = [load EXCEPT
                   !.graph = LoadVertexLabel(@, Head(load.todo),
                                 AgeGraphs[load.graph_name], load.node_label_filter),
                   !.todo = Tail(@)]
            /\ UNCHANGED pc
    /\ UNCHANGED <<graph, q, res, generation, store_ok, GRAPH_STATE, auto_reload,
                   reload_debounce_sec, now, age, wpc, returned, inv_ret, last>>

\* the edge loop, one label at a time, on the local graph
SnapEdgeLabel ==
    /\ pc = "edges"
    /\ IF load.todo = <<>>
       THEN pc' = "memory" /\ UNCHANGED load
       ELSE /\ load' = [load EXCEPT
                   !.graph = LoadEdgeLabel(@, Head(load.todo),
                                 AgeGraphs[load.graph_name], load.edge_type_filter),
                   !.todo = Tail(@)]
            /\ UNCHANGED pc
    /\ UNCHANGED <<graph, q, res, generation, store_ok, GRAPH_STATE, auto_reload,
                   reload_debounce_sec, now, age, wpc, returned, inv_ret, last>>

\* a query of the loader failing in SPI: the `?` leaves the closure and
\* error! aborts the call
SnapSpiError ==
    /\ pc \in {"vertices", "edges"}
    /\ pc' = "idle"
    /\ load' = NoLoad
    /\ last' = [op |-> "load_error", call |-> 1 - last.call, message |-> "SPI error"]
    /\ UNCHANGED <<graph, q, res, generation, store_ok, GRAPH_STATE, auto_reload,
                   reload_debounce_sec, now, age, wpc, returned, inv_ret>>

\* the memory limit check, then set_graph with the new GraphState
SnapFinish ==
    \E max_mb \in MemoryCaps :
        /\ pc = "memory"
        /\ pc' = "idle"
        /\ load' = NoLoad
        /\ IF memory_mb(load.graph) > max_mb
           THEN /\ last' = [op |-> "load_error", call |-> 1 - last.call,
                             message |-> "exceeds graph_accel.max_memory_mb"]
                /\ UNCHANGED GRAPH_STATE
           ELSE /\ last' = [op |-> "loaded", call |-> 1 - last.call]
                /\ GRAPH_STATE' = set_graph(GRAPH_STATE,
                       [graph |-> load.graph,
                        source_graph |-> load.graph_name,
                        load_time_ms |-> now - load.start,
                        loaded_at |-> now])
        /\ UNCHANGED <<graph, q, res, generation, store_ok, auto_reload,
                       reload_debounce_sec, now, age, wpc, returned, inv_ret>>

\* a query function on the backend: with_graph hands it the loaded state;
\* `after` notes what the backend did last (bookkeeping, read by no operation)
SnapQuery ==
    /\ pc = "idle"
    /\ q' = [op |-> "with_graph", after |-> last.op]
    /\ res' = GRAPH_STATE
    /\ last' = [op |-> "query", call |-> 1 - last.call]
    /\ UNCHANGED <<graph, generation, store_ok, GRAPH_STATE, pc, load, auto_reload,
                   reload_debounce_sec, now, age, wpc, returned, inv_ret>>

NextSnapshot ==
    \/ SnapLoad
    \/ SnapVertexLabel
    \/ SnapEdgeLabel
    \/ SnapSpiError
    \/ SnapFinish
    \/ SnapQuery
    \/ Tick

SpecSnapshot == InitGen /\ [][NextSnapshot]_vars

(***************************************************************************)
(* Reference notions the results are compared with, stated on the stored   *)
(* forward edges (outgoing) alone                                          *)
(***************************************************************************)
Unreachable == Cardinality(KspNodeIds) + 1

\* the filter rule: no threshold, or confidence not loaded, or at least the
\* threshold (which no confidence is when the threshold is NaN)
RefPasses(confidence, min_confidence) ==
    \/ min_confidence = None
    \/ confidence = NO_CONFIDENCE
    \/ min_confidence[1] # NO_CONFIDENCE /\ confidence >= min_confidence[1]

Forward(g, u, v, min_confidence) ==
    \E i \in 1..Len(neighbors_out(g, u)) :
        /\ neighbors_out(g, u)[i].target = v
        /\ RefPasses(neighbors_out(g, u)[i].confidence, min_confidence)

Adjacent(g, u, v, direction, min_confidence) ==
    \/ direction \in {"Outgoing", "Both"} /\ Forward(g, u, v, min_confidence)
    \/ direction \in {"Incoming", "Both"} /\ Forward(g, v, u, min_confidence)

\* the nodes at true distance <= k from s (growing with k)
RECURSIVE Within(_, _, _, _, _)
Within(g, s, k, direction, min_confidence) ==
    IF k = 0 THEN {s}
    ELSE LET w == Within(g, s, k - 1, direction, min_confidence)
         IN  w \cup { v \in KspNodeIds :
                        \E u \in w : Adjacent(g, u, v, direction, min_confidence) }

TrueDistance(g, s, v, direction, min_confidence) ==
    LET n == Cardinality(KspNodeIds)
    IN  IF v \notin Within(g, s, n, direction, min_confidence) THEN Unreachable
        ELSE CHOOSE k \in 0..n :
                 /\ v \in Within(g, s, k, direction, min_confidence)
                 /\ (k = 0 \/ v \notin Within(g, s, k - 1, direction, min_confidence))

\* a stored edge that passes the filter joins u and v, has the type `name`,
\* and is traversed in direction `dir` (Outgoing: stored u -> v; Incoming:
\* stored v -> u), the direction mode allowing it
Hop(g, u, v, name, dir, direction, min_confidence) ==
    LET from == IF dir = "Outgoing" THEN u ELSE v
        to   == IF dir = "Outgoing" THEN v ELSE u
    IN  /\ dir \in {"Outgoing", "Incoming"}
        /\ direction \in {dir, "Both"}
        /\ \E i \in 1..Len(neighbors_out(g, from)) :
               LET e == neighbors_out(g, from)[i]
               IN  /\ e.target = to
                   /\ rel_type_name(g, e.rel_type) = Some(name)
                   /\ RefPasses(e.confidence, min_confidence)

\* types and dirs label, hop by hop, a walk from u to target
RECURSIVE LabelsWalk(_, _, _, _, _, _, _)
LabelsWalk(g, u, target, types, dirs, direction, min_confidence) ==
    IF types = <<>> \/ dirs = <<>> THEN types = <<>> /\ dirs = <<>> /\ u = target
    ELSE \E v \in KspNodeIds :
             /\ Hop(g, u, v, Head(types), Head(dirs), direction, min_confidence)
             /\ LabelsWalk(g, v, target, Tail(types), Tail(dirs), direction, min_confidence)

\* the scan of one expanded node: its stored outgoing edges in the order
\* they were pushed, then its stored incoming edges in the order they were
\* pushed, as far as the direction mode allows and the filter passes them
ScanOrder(g, u, direction, min_confidence) ==
    LET out == IF direction \in {"Outgoing", "Both"} /\ u \in DOMAIN g.outgoing
               THEN [i \in 1..Len(g.outgoing[u]) |->
                        [node |-> g.outgoing[u][i].target,
                         rel_type |-> g.outgoing[u][i].rel_type,
                         confidence |-> g.outgoing[u][i].confidence,
                         dir |-> "Outgoing"]]
               ELSE <<>>
        inc == IF direction \in {"Incoming", "Both"} /\ u \in DOMAIN g.incoming
               THEN [i \in 1..Len(g.incoming[u]) |->
                        [node |-> g.incoming[u][i].target,
                         rel_type |-> g.incoming[u][i].rel_type,
                         confidence |-> g.incoming[u][i].confidence,
                         dir |-> "Incoming"]]
               ELSE <<>>
    IN  SelectSeq(out \o inc, LAMBDA s : RefPasses(s.confidence, min_confidence))

SeqRange(s) == { s[i] : i \in 1..Len(s) }

\* ord followed by the nodes of scan not yet in it, in scan order
RECURSIVE AppendNew(_, _)
AppendNew(ord, scan) ==
    IF scan = <<>> THEN ord
    ELSE AppendNew(IF Head(scan).node \in SeqRange(ord) THEN ord
                   ELSE Append(ord, Head(scan).node),
                   Tail(scan))

\* the order in which a level-order search from ord[1] dequeues the nodes
RECURSIVE DequeueOrder(_, _, _, _, _)
DequeueOrder(g, ord, i, direction, min_confidence) ==
    IF i > Len(ord) THEN ord
    ELSE DequeueOrder(g, AppendNew(ord, ScanOrder(g, ord[i], direction, min_confidence)),
                      i + 1, direction, min_confidence)

Rank(ord, x) == CHOOSE i \in 1..Len(ord) : ord[i] = x

\* u is the earliest-dequeued node with a passing edge to v, and the step
\* carries the type and direction of the first such edge in u's scan
SelectedStep(g, ord, u, step, direction, min_confidence) ==
    LET v == step.node_id
        HasEdge(x) == \E i \in 1..Len(ScanOrder(g, x, direction, min_confidence)) :
                          ScanOrder(g, x, direction, min_confidence)[i].node = v
        scan == ScanOrder(g, u, direction, min_confidence)
    IN  /\ u \in SeqRange(ord)
        /\ HasEdge(u)
        /\ \A x \in SeqRange(ord) : HasEdge(x) => Rank(ord, u) <= Rank(ord, x)
        /\ LET first == CHOOSE i \in 1..Len(scan) :
                            /\ scan[i].node = v
                            /\ \A j \in 1..(i - 1) : scan[j].node # v
           IN  /\ step.rel_type = rel_type_name(g, scan[first].rel_type)
               /\ step.direction = Some(scan[first].dir)

(***************************************************************************)
(* Claims                                                                  *)
(***************************************************************************)

\* C1: bfs_neighborhood from a registered start returns an entry for v # start
\* exactly when the true distance from start to v in the direction- and
\* confidence-filtered graph is in 1..max_depth, and the entry's distance is
\* that true distance.
C1_BfsDistances ==
    (q.op = "bfs_neighborhood" /\ node(graph, q.start) # None) =>
        /\ \A v \in KspNodeIds \ {q.start} :
               (\E n \in res.neighbors : n.node_id = v)
               <=> TrueDistance(graph, q.start, v, q.direction, q.min_confidence)
                       \in 1..q.max_depth
        /\ \A n \in res.neighbors :
               /\ n.node_id # q.start
               /\ n.distance = TrueDistance(graph, q.start, n.node_id,
                                            q.direction, q.min_confidence)

\* a filtered, incoming-only query that returns a node at distance 2
C1_Witness ==
    /\ q.op = "bfs_neighborhood"
    /\ node(graph, q.start) # None
    /\ q.min_confidence # None
    /\ q.direction = "Incoming"
    /\ \E n \in res.neighbors : n.distance = 2

\* C2: for registered a and b, shortest_path returns a path whose hop count is
\* the true distance when that distance is <= max_hops (one step when a = b,
\* also with max_hops = 0), and None when b is farther or unreachable.
C2_ShortestPathLength ==
    (q.op = "shortest_path" /\ node(graph, q.start) # None
                            /\ node(graph, q.target) # None) =>
        LET d == TrueDistance(graph, q.start, q.target, q.direction, q.min_confidence)
        IN  IF d # Unreachable /\ d <= q.max_hops
            THEN res # None /\ Len(res[1]) - 1 = d
            ELSE res = None

\* a two-hop path found with max_hops = 2 under a confidence threshold
C2_Witness ==
    /\ q.op = "shortest_path"
    /\ q.max_hops = 2
    /\ q.min_confidence # None
    /\ res # None
    /\ Len(res[1]) = 3

\* the simple paths (as node-id sequences) from s to t of at most h hops in the
\* direction- and confidence-filtered graph
IsSimple(ids) == \A i, j \in 1..Len(ids) : i # j => ids[i] # ids[j]

SimplePaths(g, s, t, h, direction, min_confidence) ==
    LET n     == Cardinality(KspNodeIds)
        top   == IF h + 1 < n THEN h + 1 ELSE n
        cands == UNION { [1..len -> KspNodeIds] : len \in 1..top }
    IN  { p \in cands :
            /\ p[1] = s
            /\ p[Len(p)] = t
            /\ IsSimple(p)
            /\ \A i \in 1..(Len(p) - 1) :
                   Adjacent(g, p[i], p[i + 1], direction, min_confidence) }

KspCall == q.op = "k_shortest_paths"

KspEndpointsRegistered == node(graph, q.start) # None /\ node(graph, q.target) # None

\* C3: with m simple paths of at most max_hops hops from start to target,
\* k_shortest_paths returns exactly min(k, m) paths, and no simple path left
\* out is shorter than a returned one.
C3_ExactlyMinKM ==
    (KspCall /\ KspEndpointsRegistered) =>
        LET all      == SimplePaths(graph, q.start, q.target, q.max_hops,
                                    q.direction, q.min_confidence)
            m        == Cardinality(all)
            found    == { Ids(res[i]) : i \in 1..Len(res) }
        IN  /\ Len(res) = (IF q.k < m THEN q.k ELSE m)
            /\ \A p \in all \ found :
                   \A i \in 1..Len(res) : Len(p) >= Len(res[i])

\* C4: every path k_shortest_paths returns visits no node twice.
C4_PathsAreSimple ==
    KspCall => \A i \in 1..Len(res) : IsSimple(Ids(res[i]))

\* three paths returned in both-direction mode, one of them through all four nodes
C4_Witness ==
    /\ KspCall
    /\ q.direction = "Both"
    /\ Len(res) = 3
    /\ \E i \in 1..Len(res) : Len(res[i]) = 4

\* C5: the paths k_shortest_paths returns are in non-decreasing order of hop count.
C5_NonDecreasingHops ==
    KspCall => \A i, j \in 1..Len(res) : i < j => Len(res[i]) <= Len(res[j])

\* three paths returned, the last strictly longer than the first
C5_Witness ==
    /\ KspCall
    /\ Len(res) = 3
    /\ Len(res[1]) < Len(res[3])

\* C6: no two returned paths have the same node-ID sequence, also where
\* parallel edges of different types join the same two nodes.
C6_DistinctNodeSequences ==
    KspCall => \A i, j \in 1..Len(res) : i # j => Ids(res[i]) # Ids(res[j])

\* at least two paths returned from a graph holding parallel edges between a
\* pair of nodes on a returned path
C6_Witness ==
    /\ KspCall
    /\ Len(res) >= 2
    /\ \E i \in 1..Len(res) : \E j \in 1..(Len(res[i]) - 1) :
           LET u   == res[i][j].node_id
               v   == res[i][j + 1].node_id
               out == neighbors_out(graph, u)
           IN  Cardinality({ x \in 1..Len(out) : out[x].target = v }) >= 2

\* C7: ensure_fresh goes on to reload exactly when a snapshot is loaded, the
\* generation table is readable, loaded_generation < the current generation,
\* auto_reload is on, and reload_debounce_sec is 0 or at least that many
\* seconds have passed since the load; otherwise it returns with GRAPH_STATE
\* as it was.
C7_ReloadCondition ==
    /\ GRAPH_STATE # None
    /\ store_ok
    /\ LET gs      == GRAPH_STATE[1]
           current == IF gs.source_graph \in DOMAIN generation
                      THEN generation[gs.source_graph] ELSE 0
       IN  /\ gs.loaded_generation < current
           /\ \/ reload_debounce_sec = 0
              \/ now - gs.loaded_at >= reload_debounce_sec * TicksPerSec
    /\ auto_reload

C7_ReloadIff ==
    [][ last'.call # last.call =>
            /\ (pc' = "load_read") <=> C7_ReloadCondition
            /\ ~C7_ReloadCondition => (pc' = "idle" /\ GRAPH_STATE' = GRAPH_STATE) ]_vars

\* ensure_fresh has just gone on to reload a stale snapshot with a debounce set
C7_Witness ==
    /\ last.op = "ensure_fresh"
    /\ pc = "load_read"
    /\ GRAPH_STATE # None
    /\ reload_debounce_sec > 0
    /\ now - GRAPH_STATE[1].loaded_at >= reload_debounce_sec * TicksPerSec

\* C8: for each graph name the n-th invalidate call returns n, whatever calls
\* for the other graph name come in between.
C8_NthCallReturnsN ==
    \A g \in GraphNames :
        \A n \in 1..Len(returned[g]) : returned[g][n] = n

\* three calls for one graph and two for the other
C8_Witness ==
    /\ Len(returned["g"]) = 3
    /\ Len(returned["h"]) = 2

\* the mutations of the loaded graph whose invalidate has returned
C9_Invalidated == DOMAIN inv_ret[GRAPH_STATE[1].source_graph]

\* C9 as claimed: a snapshot with loaded_generation = g holds every mutation
\* whose invalidate returned a value <= g, and a snapshot missing an
\* invalidated mutation is stale (loaded_generation < current generation).
C9_ReadAfterGuarantee ==
    GRAPH_STATE # None =>
        LET gs      == GRAPH_STATE[1]
            ret     == inv_ret[gs.source_graph]
            current == fetch_generation(generation, store_ok, gs.source_graph)
        IN  /\ \A m \in C9_Invalidated :
                   ret[m] <= gs.loaded_generation => m <= gs.graph
            /\ (\E m \in C9_Invalidated : m > gs.graph) =>
                   gs.loaded_generation < current[1]

\* C9 amended: a snapshot holds every mutation whose invalidate returned a
\* value <= the counter's value when the loader read the data.
C9_ReflectsInvalidatedBeforeRead ==
    GRAPH_STATE # None =>
        LET gs  == GRAPH_STATE[1]
            ret == inv_ret[gs.source_graph]
        IN  \A m \in C9_Invalidated :
                ret[m] <= gs.read_generation => m <= gs.graph

\* a snapshot that holds one invalidated mutation and misses a later one
C9_Witness ==
    /\ GRAPH_STATE # None
    /\ \E m \in C9_Invalidated :
           inv_ret[GRAPH_STATE[1].source_graph][m] <= GRAPH_STATE[1].read_generation
    /\ \E m \in C9_Invalidated : m > GRAPH_STATE[1].graph

\* the node ids bfs_neighborhood returns, without a confidence threshold
NeighborIds(g, s, d, direction) ==
    { n.node_id : n \in bfs_neighborhood(g, s, d, direction, None).neighbors }

C10_Case ==
    /\ q.op = "bfs_neighborhood"
    /\ q.direction = "Both"
    /\ q.min_confidence = None

AdmittedCount(g, u, v, name, node_set, min_confidence) ==
    Cardinality({ i \in 1..Len(neighbors_out(g, u)) :
        /\ neighbors_out(g, u)[i].target = v
        /\ rel_type_name(g, neighbors_out(g, u)[i].rel_type) = Some(name)
        /\ v \in node_set
        /\ RefPasses(neighbors_out(g, u)[i].confidence, min_confidence) })

EmittedCount(edges, u, v, name) ==
    Cardinality({ i \in 1..Len(edges) :
        edges[i].from_id = u /\ edges[i].to_id = v /\ edges[i].rel_type = name })

\* the edges of node n in iteration order, before the filter
UnfilteredNeighbors(g, n, direction) ==
    (IF direction \in {"Outgoing", "Both"} THEN Tag(neighbors_out(g, n), "Outgoing") ELSE <<>>)
        \o (IF direction \in {"Incoming", "Both"} THEN Tag(neighbors_in(g, n), "Incoming") ELSE <<>>)

\* C11: an edge is produced by neighbour iteration, and emitted by
\* extract_subgraph between discovered nodes, exactly when no threshold is
\* given, or the edge's confidence is the NaN sentinel, or the confidence is
\* >= the threshold; an edge without confidence passes every threshold.
C11_FilterRule ==
    /\ q.op = "iter_neighbors" =>
           res = SelectSeq(UnfilteredNeighbors(graph, q.node, q.direction),
                     LAMBDA p : RefPasses(p.edge.confidence, q.min_confidence))
    /\ (q.op = "extract_subgraph" /\ node(graph, q.start) # None) =>
           LET node_set == SubgraphNodeSet(graph, q.start, q.max_depth,
                                           q.direction, q.min_confidence)
           IN  \A u \in NodeIds, v \in NodeIds, name \in {"A", "B"} :
                   EmittedCount(res.edges, u, v, name) =
                       IF u \in node_set
                       THEN AdmittedCount(graph, u, v, name, node_set, q.min_confidence)
                       ELSE 0

\* the node set S of an extract_subgraph call: the start and every node within
\* max_depth of it; nothing when the start is not registered (no BFS is run)
DiscoveredSet ==
    IF node(graph, q.start) = None THEN {}
    ELSE Within(graph, q.start, q.max_depth, q.direction, q.min_confidence)

\* C12: every edge emitted by extract_subgraph has both its from_id and its
\* to_id in the BFS-discovered node set S (start included), and node_count
\* equals |S|.
C12_EdgesWithinDiscovered ==
    q.op = "extract_subgraph" =>
        /\ \A i \in 1..Len(res.edges) :
               res.edges[i].from_id \in DiscoveredSet /\ res.edges[i].to_id \in DiscoveredSet
        /\ res.node_count = Cardinality(DiscoveredSet)

\* a call that emits an edge between two discovered nodes while a discovered
\* node also has a stored edge to a node outside S
C12_Witness ==
    /\ q.op = "extract_subgraph"
    /\ res.node_count = 2
    /\ Len(res.edges) >= 1
    /\ \E u \in DiscoveredSet, v \in NodeIds \ DiscoveredSet : Forward(graph, u, v, None)

\* the degree of a node counted on the stored forward edges alone
RefTotalDegree(g, id) ==
    LET Out(u) == { i \in 1..Len(neighbors_out(g, u)) : TRUE }
        InFrom(u) == { i \in 1..Len(neighbors_out(g, u)) : neighbors_out(g, u)[i].target = id }
        SumIn[S \in SUBSET KspNodeIds] ==
            IF S = {} THEN 0
            ELSE LET u == CHOOSE x \in S : TRUE
                 IN  Cardinality(InFrom(u)) + SumIn[S \ {u}]
    IN  Cardinality(Out(id)) + SumIn[KspNodeIds]

\* a ranks before b: larger total degree, or equal degree and smaller NodeId
RanksBefore(g, a, b) ==
    \/ RefTotalDegree(g, a) > RefTotalDegree(g, b)
    \/ RefTotalDegree(g, a) = RefTotalDegree(g, b) /\ a < b

\* C13: degree_centrality(top_n) returns registered nodes ordered by total
\* degree descending with ties broken by NodeId ascending; top_n = 0 returns
\* every registered node, top_n > 0 the first min(top_n, node_count) entries
\* of that full ordering.
C13_DegreeRanking ==
    q.op = "degree_centrality" =>
        LET registered == DOMAIN graph.nodes
            n == Cardinality(registered)
            returned_ids == { res[i].node_id : i \in 1..Len(res) }
        IN  /\ Len(res) = IF q.top_n = 0 \/ q.top_n > n THEN n ELSE q.top_n
            /\ returned_ids \subseteq registered
            /\ \A i \in 1..Len(res) :
                   res[i].total_degree = RefTotalDegree(graph, res[i].node_id)
            /\ \A i, j \in 1..Len(res) :
                   i < j => RanksBefore(graph, res[i].node_id, res[j].node_id)
            /\ \A a \in returned_ids, b \in registered \ returned_ids :
                   RanksBefore(graph, a, b)

\* a truncated ranking in which degrees differ and a tie is broken by NodeId
C13_Witness ==
    /\ q.op = "degree_centrality"
    /\ q.top_n = 2
    /\ Cardinality(DOMAIN graph.nodes) = 3
    /\ Len(res) = 2
    /\ res[1].total_degree > res[2].total_degree
    /\ \E b \in DOMAIN graph.nodes :
           b # res[2].node_id /\ RefTotalDegree(graph, b) = res[2].total_degree

\* the number of entries of an adjacency list equal to the edge e
Occurrences(list, e) == Cardinality({ i \in 1..Len(list) : list[i] = e })

\* C14: after any sequence of add_edge and load_edges calls, for all u, v and
\* relationship type r the number of (v, r) entries of outgoing[u] equals the
\* number of (u, r) entries of incoming[v], with the same confidence; parallel
\* edges are kept, and a self-loop is once in outgoing[u] and once in incoming[u].
C14_AdjacencyMirror ==
    \A u \in NodeIds, v \in NodeIds, r \in 0..(Len(graph.rel_types) - 1),
       c \in {NO_CONFIDENCE, ConfLow, ConfHigh} :
        Occurrences(neighbors_out(graph, u), [target |-> v, rel_type |-> r, confidence |-> c])
            = Occurrences(neighbors_in(graph, v), [target |-> u, rel_type |-> r, confidence |-> c])

\* two parallel self-loops, one added by add_edge and kept next to the other
C14_Witness ==
    /\ Len(neighbors_out(graph, 0)) = 2
    /\ neighbors_out(graph, 0)[1] = neighbors_out(graph, 0)[2]
    /\ neighbors_out(graph, 0)[1].target = 0
    /\ Len(neighbors_in(graph, 0)) = 2
    /\ 0 \notin DOMAIN graph.nodes

\* the NodeIds that are an endpoint of a stored edge
EdgeEndpoints(g) ==
    { u \in NodeIds : Len(neighbors_out(g, u)) > 0 \/ Len(neighbors_in(g, u)) > 0 }

\* C15: at the end of a load, by the core's load_edges or by the extension's
\* load (vertices subject to the node_labels filter, then edges subject to the
\* edge_types filter with add_edge), every NodeId that is an endpoint of a
\* stored edge has an entry in nodes.
C15_EndpointsRegistered ==
    EdgeEndpoints(graph) \subseteq DOMAIN graph.nodes

\* every value of app_id_index is a key of nodes, and that node's app_id is
\* the key it is indexed under
IndexedNodesCarryKey(g) ==
    \A a \in DOMAIN g.app_id_index :
        /\ g.app_id_index[a] \in DOMAIN g.nodes
        /\ g.nodes[g.app_id_index[a]].app_id = Some(a)

\* C16: after any sequence of add_node and load_edges calls, every value in
\* app_id_index is a key of nodes, the index maps each app_id to the node of
\* its first occurrence (an entry, once made, is never changed), and the
\* indexed node's app_id equals the index key.
C16_AppIdIndex ==
    [][ /\ IndexedNodesCarryKey(graph')
        /\ \A a \in DOMAIN graph.app_id_index :
               graph'.app_id_index[a] = graph.app_id_index[a] ]_vars

\* C17: for any stored edge u -> v and any depth d >= 1, without confidence
\* filter, v is in bfs_neighborhood(u, d, Outgoing) exactly when u is in
\* bfs_neighborhood(v, d, Incoming).
C17_OutgoingIncomingDual ==
    (/\ q.op = "bfs_neighborhood"
     /\ q.direction = "Outgoing"
     /\ q.min_confidence = None
     /\ q.max_depth >= 1) =>
        \A v \in NodeIds :
            Forward(graph, q.start, v, None) =>
                (v \in { n.node_id : n \in res.neighbors }
                    <=> q.start \in NeighborIds(graph, v, q.max_depth, "Incoming"))

\* the (node id, distance) pairs of a bfs_neighborhood result
IdsAndDistances(result) ==
    { <<n.node_id, n.distance>> : n \in result.neighbors }

\* the stored edges as (from, to, confidence)
StoredEdges(g) ==
    UNION { { <<u, neighbors_out(g, u)[i].target, neighbors_out(g, u)[i].confidence>> :
                i \in 1..Len(neighbors_out(g, u)) } : u \in NodeIds }

\* C18: adding duplicates of a stored edge u -> v (same endpoints and
\* confidence, any relationship type) leaves the neighbor count, the node ids
\* and the distances returned by bfs_neighborhood unchanged, for every start,
\* depth and direction.
C18_DuplicateEdgesIdempotent ==
    q.op = "bfs_neighborhood" =>
        \A e \in StoredEdges(graph), name \in {"A", "B"}, times \in 1..2 :
            LET pairs == [i \in 1..times |-> <<e[1], e[2]>>]
                after == bfs_neighborhood(add_edges(graph, pairs, <<name, e[3]>>),
                                          q.start, q.max_depth, q.direction,
                                          q.min_confidence)
            IN  /\ Cardinality(after.neighbors) = Cardinality(res.neighbors)
                /\ IdsAndDistances(after) = IdsAndDistances(res)

\* a query that follows one of two edges out of the start, the other one
\* being filtered out, so that a duplicate of either could matter
C18_Witness ==
    /\ q.op = "bfs_neighborhood"
    /\ q.direction = "Outgoing"
    /\ q.min_confidence = Some(ConfHigh)
    /\ Len(neighbors_out(graph, q.start)) = 2
    /\ Cardinality(res.neighbors) = 1
    /\ \E n \in res.neighbors : n.distance = 1

BfsRunning == q.op = "bfs_neighborhood" /\ res.pc = "while"

BfsDone == q.op = "bfs_neighborhood" /\ res.pc = "done"

\* every entry ever pushed on the queue: those popped and those still queued
BfsPushed == res.popped \o res.queue

\* C19: bfs_neighborhood terminates on every graph (cycles, self-loops and
\* parallel edges included); it inserts each node into visited and into the
\* queue at most once; the result holds at most one entry per node id and
\* never the start.
C19_BfsTerminatesOncePerNode ==
    /\ [](BfsRunning =>
            /\ \A i, j \in 1..Len(BfsPushed) :
                   i # j => BfsPushed[i][1] # BfsPushed[j][1]
            /\ { BfsPushed[i][1] : i \in 1..Len(BfsPushed) } = DOMAIN res.visited)
    /\ [][(BfsRunning /\ BfsRunning') =>
            \A n \in DOMAIN res.visited : res'.visited[n] = res.visited[n]]_vars
    /\ [](BfsDone =>
            /\ \A a, b \in res.neighbors : a.node_id = b.node_id => a = b
            /\ \A a \in res.neighbors : a.node_id # q.start
            /\ res = bfs_neighborhood(graph, q.start, q.max_depth, q.direction,
                                      q.min_confidence) @@ [pc |-> "done"])
    /\ (BfsRunning ~> BfsDone)

\* a finished call that went round a cycle through the start: the edge back
\* to the start was met at depth 1 and the start was not entered again
C19_Witness ==
    /\ BfsDone
    /\ q.max_depth = 2
    /\ q.direction = "Outgoing"
    /\ \E n \in res.neighbors :
           n.distance = 1 /\ Forward(graph, n.node_id, q.start, None)
    /\ res.nodes_visited = 2

\* the call in q has a negative max_depth, max_hops or max_paths
NegativeBound ==
    \/ q.op \in {"graph_accel_neighborhood", "graph_accel_subgraph"} /\ q.max_depth < 0
    \/ q.op \in {"graph_accel_path", "graph_accel_paths"} /\ q.max_hops < 0
    \/ q.op = "graph_accel_paths" /\ q.max_paths < 0

\* C20: every query entry point that takes max_depth, max_hops or max_paths
\* (neighborhood, path, paths, subgraph) raises a fatal error and runs no
\* traversal when that parameter is negative; a negative value is never
\* reinterpreted as a large unsigned bound.
C20_NegativeBoundRejected ==
    NegativeBound => res.error # None /\ res.bound = None /\ res.result = None

StartUnknown == q.start \notin DOMAIN graph.nodes

EndpointUnknown == StartUnknown \/ q.target \notin DOMAIN graph.nodes

\* C21: the traversals never raise on unknown nodes: with an unregistered
\* start bfs_neighborhood returns no neighbors and nodes_visited = 0 and
\* extract_subgraph returns node_count = 0 and no edges; with an unregistered
\* start or target shortest_path returns None and k_shortest_paths returns
\* the empty list.
C21_UnknownNodesYieldEmpty ==
    q # NoQuery =>
        /\ (q.op = "bfs_neighborhood" /\ StartUnknown) =>
               res = [neighbors |-> {}, nodes_visited |-> 0]
        /\ (q.op = "extract_subgraph" /\ StartUnknown) =>
               res = [node_count |-> 0, edges |-> <<>>]
        /\ (q.op = "shortest_path" /\ EndpointUnknown) => res = None
        /\ (q.op = "k_shortest_paths" /\ EndpointUnknown) => res = <<>>

\* a neighborhood was asked of an unregistered start that has an outgoing
\* edge, with a depth and direction that would follow it
C21_Witness ==
    /\ q # NoQuery
    /\ q.op = "bfs_neighborhood"
    /\ StartUnknown
    /\ neighbors_out(graph, q.start) # <<>>
    /\ q.max_depth >= 1
    /\ q.direction = "Both"
    /\ q.min_confidence = None
    /\ res = [neighbors |-> {}, nodes_visited |-> 0]

\* a call of graph_accel_status() returns in this step
StatusReturns == last'.op = "status" /\ last' # last

\* C22: graph_accel_status() reports 'not_loaded' with is_stale = false when
\* no snapshot is loaded; with a snapshot loaded, is_stale is true exactly
\* when loaded_generation < current_generation, the status is 'stale' exactly
\* when is_stale and 'loaded' otherwise, and is_stale is true exactly when
\* ensure_fresh would find the snapshot stale (it would reload, were
\* auto_reload on and the debounce off).
C22_StatusAgreesWithStaleness ==
    [][StatusReturns =>
        /\ GRAPH_STATE = None =>
               res'.status = "not_loaded" /\ res'.is_stale = FALSE
        /\ GRAPH_STATE # None =>
               /\ res'.loaded_generation = GRAPH_STATE[1].loaded_generation
               /\ res'.is_stale <=> res'.loaded_generation < res'.current_generation
               /\ res'.status = (IF res'.is_stale THEN "stale" ELSE "loaded")
               /\ res'.is_stale <=>
                      ensure_fresh(GRAPH_STATE, generation, store_ok, TRUE, 0, now) # None
      ]_vars

\* the status of a snapshot that an invalidation has made stale was reported
C22_Witness ==
    /\ last.op = "status"
    /\ GRAPH_STATE # None
    /\ pc = "idle"
    /\ res.status = "stale"
    /\ res.is_stale
    /\ res.loaded_generation < res.current_generation

\* a call of intern_rel_type returns or panics in this step
InternStep == q'.op = "intern_rel_type" /\ q' # q

\* C23: the interner holds at most 65,535 distinct relationship types: a new
\* name is interned while fewer than 65,535 are held, a new name beyond that
\* panics and leaves the interner as it was, and a known name is still
\* answered at the cap.
C23_InternerCap ==
    [][InternStep =>
        LET name  == q'.rel_type
            known == name \in DOMAIN graph.rel_type_map
            count == rel_type_count(graph)
        IN  /\ rel_type_count(graph') <= 65535
            /\ (~known /\ count < 65535) =>
                   /\ ~res'.panic
                   /\ rel_type_count(graph') = count + 1
                   /\ name \in DOMAIN graph'.rel_type_map
            /\ (~known /\ count >= 65535) =>
                   /\ res'.panic
                   /\ graph' = graph
            /\ known =>
                   /\ ~res'.panic
                   /\ res'.id = graph.rel_type_map[name]
      ]_vars

\* the 65,536th distinct name was offered and refused
C23_Witness ==
    /\ q # NoQuery
    /\ q.op = "intern_rel_type"
    /\ res.panic
    /\ rel_type_count(graph) = 65535
    /\ q.rel_type \notin DOMAIN graph.rel_type_map

\* names and ids 0 .. rel_type_count-1 correspond one to one
InternerBijection ==
    LET count == rel_type_count(graph)
    IN  /\ Cardinality(DOMAIN graph.rel_type_map) = count
        /\ \A name \in DOMAIN graph.rel_type_map :
               /\ graph.rel_type_map[name] \in 0..(count - 1)
               /\ graph.rel_types[graph.rel_type_map[name] + 1] = name
        /\ \A i \in 1..count :
               /\ graph.rel_types[i] \in DOMAIN graph.rel_type_map
               /\ graph.rel_type_map[graph.rel_types[i]] = i - 1

\* C24: the interner is a bijection between the interned names and the ids
\* 0 .. rel_type_count-1: a new name gets the number of names interned before
\* it as its id, a known name gets its existing id and the table does not
\* grow, an id once assigned never changes, rel_type_name of the id returned
\* for a name is that name, and rel_type_name(id) is None for
\* id >= rel_type_count.
C24_InternerBijection ==
    /\ []InternerBijection
    /\ [][/\ \A name \in DOMAIN graph.rel_type_map :
                 /\ name \in DOMAIN graph'.rel_type_map
                 /\ graph'.rel_type_map[name] = graph.rel_type_map[name]
          /\ InternStep =>
                 LET name  == q'.rel_type
                     known == name \in DOMAIN graph.rel_type_map
                 IN  /\ known => res'.id = graph.rel_type_map[name] /\ graph' = graph
                     /\ (~known /\ ~res'.panic) => res'.id = rel_type_count(graph)
                     /\ ~res'.panic => rel_type_name(graph', res'.id) = Some(name)
          /\ (q'.op = "rel_type_name" /\ q' # q) =>
                 IF q'.id >= rel_type_count(graph)
                 THEN res' = None
                 ELSE res' # None /\ intern_rel_type(graph, res'[1]).id = q'.id
         ]_vars

\* the name interned second was interned again after a third one and got its
\* id 1 back, in an interner filled out of numerical order
C24_Witness ==
    /\ q # NoQuery
    /\ q.op = "intern_rel_type"
    /\ ~res.panic
    /\ res.id = 1
    /\ rel_type_count(graph) = 3
    /\ graph.rel_types = <<2, q.rel_type, 0>>

\* C25: for every neighbor returned by bfs_neighborhood, path_types and
\* path_directions have the same length, the neighbor's distance, and hold
\* one type name and one traversed direction per hop in start-to-node order:
\* they label a walk from the start to the neighbor.
C25_PathVectorsParallel ==
    (q # NoQuery /\ q.op = "bfs_neighborhood") =>
        \A n \in res.neighbors :
            /\ Len(n.path_types) = Len(n.path_directions)
            /\ Len(n.path_types) = n.distance
            /\ LabelsWalk(graph, q.start, n.node_id, n.path_types, n.path_directions,
                          q.direction, q.min_confidence)

\* a neighbor two hops away, reached by edges of two different types
\* traversed in two different directions
C25_Witness ==
    /\ q # NoQuery
    /\ q.op = "bfs_neighborhood"
    /\ \E n \in res.neighbors :
           /\ n.distance = 2
           /\ Len(n.path_types) = 2
           /\ n.path_types[1] # n.path_types[2]
           /\ n.path_directions = <<"Incoming", "Outgoing">>

\* C26: the path shortest_path returns is the one a level-order search
\* selects that scans each expanded node's outgoing edges in insertion order
\* and then its incoming edges in insertion order: it has the length of the
\* true distance, and every node on it after the start has as predecessor
\* the earliest-dequeued node with a passing edge to it and carries the type
\* and direction of the first such edge in the scan.
C26_TieBreakByInsertionOrder ==
    (q # NoQuery /\ q.op = "shortest_path" /\ res # None) =>
        LET p == res[1]
            ord == DequeueOrder(graph, <<q.start>>, 1, q.direction, q.min_confidence)
        IN  /\ p[1].node_id = q.start
            /\ p[Len(p)].node_id = q.target
            /\ Len(p) - 1 = TrueDistance(graph, q.start, q.target,
                                         q.direction, q.min_confidence)
            /\ \A k \in 2..Len(p) :
                   SelectedStep(graph, ord, p[k - 1].node_id, p[k],
                                q.direction, q.min_confidence)

\* two shortest paths of two hops through different nodes led from the start
\* to the target, and the one through the node dequeued first was returned
C26_Witness ==
    /\ q # NoQuery
    /\ q.op = "shortest_path"
    /\ res # None
    /\ Len(res[1]) = 3
    /\ LET ord == DequeueOrder(graph, <<q.start>>, 1, q.direction, q.min_confidence)
       IN  \E x \in SeqRange(ord) :
               /\ x # res[1][2].node_id
               /\ Adjacent(graph, q.start, x, q.direction, q.min_confidence)
               /\ Adjacent(graph, x, q.target, q.direction, q.min_confidence)
               /\ Rank(ord, res[1][2].node_id) < Rank(ord, x)

\* p is a walk from start to target of at most max_hops hops in the filtered
\* graph, its steps labelled with the edges walked
RealWalk(g, p, start, target, max_hops, direction, min_confidence) ==
    /\ Len(p) >= 1
    /\ p[1].node_id = start
    /\ p[1].rel_type = None
    /\ p[1].direction = None
    /\ p[Len(p)].node_id = target
    /\ Len(p) - 1 <= max_hops
    /\ \A k \in 2..Len(p) :
           /\ p[k].rel_type # None
           /\ p[k].direction # None
           /\ Hop(g, p[k - 1].node_id, p[k].node_id, p[k].rel_type[1],
                  p[k].direction[1], direction, min_confidence)

\* C27: every path returned by shortest_path or k_shortest_paths is a real
\* walk in the filtered graph: it starts at start with absent rel_type and
\* direction, ends at target, has at most max_hops hops, and every later step
\* is joined to the previous one by a stored edge that passes the filter, is
\* allowed by the direction mode and has the step's type, the step's
\* direction being Outgoing for an edge previous -> this and Incoming for an
\* edge this -> previous.
C27_PathsAreRealWalks ==
    /\ (q # NoQuery /\ q.op = "shortest_path" /\ res # None) =>
           RealWalk(graph, res[1], q.start, q.target, q.max_hops,
                    q.direction, q.min_confidence)
    /\ (q # NoQuery /\ q.op = "k_shortest_paths") =>
           \A i \in 1..Len(res) :
               RealWalk(graph, res[i], q.start, q.target, q.max_hops,
                        q.direction, q.min_confidence)

\* k_shortest_paths returned a second path, built from a root and a spur,
\* that uses the whole hop budget and walks an edge against its direction
C27_Witness ==
    /\ q # NoQuery
    /\ q.op = "k_shortest_paths"
    /\ Len(res) >= 2
    /\ Len(res[2]) - 1 = q.max_hops
    /\ Len(res[2]) > Len(res[1])
    /\ \E k \in 2..Len(res[2]) : res[2][k].direction = Some("Incoming")

\* the stored edges u -> v of type `name` that pass the confidence filter
StoredPassingCount(g, u, v, name, min_confidence) ==
    Cardinality({ i \in 1..Len(neighbors_out(g, u)) :
        /\ neighbors_out(g, u)[i].target = v
        /\ rel_type_name(g, neighbors_out(g, u)[i].rel_type) = Some(name)
        /\ RefPasses(neighbors_out(g, u)[i].confidence, min_confidence) })

\* C28: extract_subgraph emits exactly once each stored edge u -> v with u
\* and v in the discovered set S that passes the confidence filter, and
\* nothing else: per (u, v, type) the emitted edges are as many as the stored
\* passing edges when u and v are in S, and none otherwise.
C28_ExactlyStoredEdgesWithinS ==
    (q # NoQuery /\ q.op = "extract_subgraph") =>
        \A u \in NodeIds, v \in NodeIds, name \in {"A", "B"} :
            EmittedCount(res.edges, u, v, name) =
                IF u \in DiscoveredSet /\ v \in DiscoveredSet
                THEN StoredPassingCount(graph, u, v, name, q.min_confidence)
                ELSE 0

\* gs holds the whole of its source graph as one complete load builds it
\* under some setting of the label filters
SnapshotWhole(gs) ==
    gs # None =>
        \E node_labels \in NodeLabelSettings, edge_types \in EdgeTypeSettings :
            gs[1].graph = graph_accel_load(AgeGraphs[gs[1].source_graph], LabelCatalog,
                                           node_labels, edge_types)

\* C29: the backend's snapshot is replaced only as a whole and only by a
\* load that completed: GRAPH_STATE changes only at the set_graph of a load
\* that passed every step, to the complete graph of the source named with
\* that name and this load's metadata; a load that fails (graph missing,
\* memory cap exceeded, SPI error) leaves GRAPH_STATE as it was; and every
\* query is served a whole snapshot, never a partially loaded graph.
C29_SnapshotReplacedWhole ==
    [][/\ GRAPH_STATE' # GRAPH_STATE =>
              /\ pc = "memory"
              /\ last'.op = "loaded"
              /\ GRAPH_STATE' # None
              /\ GRAPH_STATE'[1].source_graph = load.graph_name
              /\ GRAPH_STATE'[1].loaded_at = now
              /\ GRAPH_STATE'[1].load_time_ms = now - load.start
              /\ SnapshotWhole(GRAPH_STATE')
       /\ (last'.op = "load_error" /\ last' # last) => GRAPH_STATE' = GRAPH_STATE
       /\ (last'.op = "query" /\ last' # last) =>
              /\ res' = GRAPH_STATE
              /\ SnapshotWhole(res')
      ]_vars

\* with the snapshot of g loaded, a later load failed, and the query after
\* it was served the snapshot of g
C29_Witness ==
    /\ last.op = "query"
    /\ q.after = "load_error"
    /\ res # None
    /\ res[1].source_graph = "g"
    /\ res[1].loaded_at < now
    /\ edge_count(res[1].graph) = 1

\* the loaded snapshot is at least as new as the generation counter
SnapshotFresh ==
    /\ GRAPH_STATE # None
    /\ GRAPH_STATE[1].loaded_generation >=
           (IF GRAPH_STATE[1].source_graph \in DOMAIN generation
            THEN generation[GRAPH_STATE[1].source_graph] ELSE 0)

\* C30: staleness is eventually repaired: if from some point on a snapshot is
\* loaded, auto_reload is on, the generation table is readable, no load fails
\* and no invalidation changes the counter, then (queries recurring and time
\* passing) from some point on loaded_generation >= the current generation;
\* the debounce delays the reload but does not prevent it.
C30_StalenessRepaired ==
    (/\ <>[](GRAPH_STATE # None /\ auto_reload /\ store_ok)
     /\ <>[][~LoadError]_vars
     /\ <>[][generation' = generation]_vars)
        => <>[]SnapshotFresh

\* a stale snapshot whose debounce has not elapsed, with auto_reload on and
\* the generation table readable: ensure_fresh serves it for now
C30_Witness ==
    /\ GRAPH_STATE # None
    /\ ~SnapshotFresh
    /\ auto_reload
    /\ store_ok
    /\ pc = "idle"
    /\ reload_debounce_sec > 0
    /\ as_secs(now - GRAPH_STATE[1].loaded_at) < reload_debounce_sec
    /\ last.op = "ensure_fresh"

====
